---- MODULE Spec2Model ----
(***************************************************************************)
(* Camera / avatar choreography core of the ARIA showroom:                 *)
(*   - CameraController (camera.js): modes, tours, eased transitions       *)
(*   - ARIA walk controller (aria.js): walkToPosition and its state machine*)
(*   - request sequencing in the entry point (main.js): requestCollection, *)
(*     handleCollectionSelect, intro, skip, back, cinematic sessions       *)
(*                                                                         *)
(* JavaScript is single threaded: an event handler runs to completion and  *)
(* every promise continuation it made runnable runs (in FIFO order) before *)
(* the next event.  Every action of Spec is one such macrotask: the handler *)
(* followed by the continuations it made runnable (Settle).                *)
(***************************************************************************)
EXTENDS Integers, Sequences, FiniteSets, TLC

VARIABLES
    cam,            \* CameraController fields, live gsap tweens, armed finish timers
    aria,           \* aria.js module state and its armed safety timeouts
    resolveCount,   \* per promise handed out: how many times its resolve() ran
    camCalls,       \* number of promise-returning camera calls made so far
    walkCalls,      \* number of walkToPosition calls made so far
    audio,          \* AudioSystem: current track, its pending promise, prepared track
    orch,           \* module variables of main.js
    wf,             \* the requestCollection invocations that took the lock, in order
    intro,          \* startExperience / playIntroSequence coroutines, intro state object
    backs,          \* the handleBack invocations, in order
    ui,             \* what the UI layer currently shows
    ghost,          \* history: stale actions, last accepted request
    calc            \* a function studied on its own: its arguments, then its result

\* ------------------------------------------------------------------ bounds
MaxCamCalls == 3        \* promise-returning calls (transitionTo / playTour) per run
MaxTourTicks == 1       \* duration of a product cinematic, in update() ticks
MaxTourLength == 2      \* longest tour duration tried on the camera alone
MaxPlays == 3           \* playMoment calls per run of the audio system alone
MaxVoiceStarts == 8     \* tryStart calls per run of the voice assistant
MaxWalkCalls == 3       \* walkToPosition calls per run
WalkTicks == 1          \* walking updates a walk needs (walkDuration in frames)
MaxRequests == 3        \* accepted requestCollection calls per run
MaxBacks == 1           \* handleBack calls per run
MaxWalkFrames == 3      \* longest walkDuration of a walk studied frame by frame
MaxDelta == 2           \* largest frame delta, in the same ticks
MaxYawSteps == 4        \* yaws and bearings tried per half turn
MaxVoiceClock == 10     \* how far Date.now() advances while utterances arrive
MaxSegments == 7        \* most segments asked of a product cinematic (its default)

\* ---------------------------------------------------------------- constants
\* angles are counted in units of 0.0001 rad, frame deltas of a turn in ms
Pi == 31416
TwoPi == 2 * Pi
ANGLE_TOLERANCE == 40
\* the clamped deltas tried: a short frame, the 0.016 fallback, the 0.05 cap
TurnDeltas == {4, 16, 50}
\* the voice assistant's clock is counted in ticks of 500 ms
VoiceDebounce == 5

\* --------------------------------------------------------------- identities
\* A promise / callback identity: <<owner kind, number, step>>.
NoId == <<"none", 0, "">>

\* no function is being studied on its own
NoCalc == [fn |-> "none"]

TransitionTypes == {"start", "product_with_aria", "custom", "return_start"}

\* ===================================================================
\* CameraController (camera.js)
\* ===================================================================

\* constructor: all mode flags false, no callbacks.
CameraInit(g) ==
    [ gsap |-> g,
      isTransitioning |-> FALSE,
      isFollowingARIA |-> FALSE,
      isOrbiting |-> FALSE,
      isTouring |-> FALSE,
      tourLoop |-> TRUE,
      tourTime |-> 0,
      tourDuration |-> MaxTourTicks,
      onTourComplete |-> NoId,
      transitionResolve |-> NoId,
      transitionTween |-> NoId,
      tweens |-> {},
      timers |-> {},
      out |-> << >> ]

\* The callbacks a camera call invoked, in order, as <<"transition"|"tour", id>>.
Emit(c, tag, id) == [c EXCEPT !.out = Append(@, <<tag, id>>)]

\* followARIA(active)
followARIA(c, active) ==
    IF c.isOrbiting THEN c ELSE [c EXCEPT !.isFollowingARIA = active]

\* enableOrbitMode(target, options): sets three flags; tour flag, tween and
\* transitionResolve are left as they are.
enableOrbitMode(c) ==
    [c EXCEPT !.isOrbiting = TRUE,
              !.isFollowingARIA = FALSE,
              !.isTransitioning = FALSE]

\* disableOrbitMode()
disableOrbitMode(c) == [c EXCEPT !.isOrbiting = FALSE]

\* The closure `finish` created by transitionTo for promise id.
finish(c, id) ==
    IF c.transitionResolve = NoId
    THEN c
    ELSE Emit([c EXCEPT !.transitionResolve = NoId,
                        !.isTransitioning = FALSE,
                        !.transitionTween = NoId],
              "transition", id)

\* gsap.killTweensOf(camera.position): the return_start tweens animate it.
killPositionTweens(c) ==
    IF c.gsap THEN [c EXCEPT !.tweens = {t \in @ : t.target # "position"}] ELSE c

\* cancelTransition()
cancelTransition(c) ==
    LET c1 == killPositionTweens(c)
        c2 == IF c.gsap
              THEN [c1 EXCEPT !.tweens = {t \in @ : t.id # c.transitionTween}]
              ELSE c1
        c3 == [c2 EXCEPT !.transitionTween = NoId]
    IN  IF c3.transitionResolve # NoId
        THEN LET done == c3.transitionResolve
             IN  finish([c3 EXCEPT !.transitionResolve = NoId,
                                   !.isTransitioning = FALSE], done)
        ELSE c3

\* startTour(path, look, {loop, duration, onComplete})
startTour(c, loop, duration, onComplete) ==
    LET c1 == IF c.isOrbiting THEN disableOrbitMode(c) ELSE c
        c2 == cancelTransition(c1)
        c3 == [c2 EXCEPT !.isTouring = TRUE,
                         !.isFollowingARIA = FALSE,
                         !.isTransitioning = FALSE,
                         !.tourLoop = loop,
                         !.tourDuration = duration,
                         !.tourTime = 0,
                         !.onTourComplete = IF loop THEN NoId ELSE onComplete]
    IN  killPositionTweens(c3)

\* stopTour() that marks the tour inactive and forgets the callback
stopTour_NoCallback(c) ==
    IF ~c.isTouring THEN c
    ELSE [c EXCEPT !.isTouring = FALSE, !.onTourComplete = NoId]

\* stopTour()
stopTour(c) ==
    IF ~c.isTouring THEN c
    ELSE LET c1 == [c EXCEPT !.isTouring = FALSE]
         IN  IF c1.onTourComplete # NoId
             THEN Emit([c1 EXCEPT !.onTourComplete = NoId], "tour", c1.onTourComplete)
             ELSE c1

\* playTour(path, look, options): non-looping startTour whose onComplete
\* resolves the returned promise id.
playTour(c, id, duration) == startTour(c, FALSE, duration, id)

\* stopShowroomTour()
stopShowroomTour(c) == [c EXCEPT !.isTouring = FALSE, !.onTourComplete = NoId]

\* transitionTo(type, duration, arg1, arg2) returning promise id.
transitionTo(c, id, type) ==
    LET c1 == IF c.isOrbiting THEN disableOrbitMode(c) ELSE c
        c2 == [c1 EXCEPT !.isTouring = FALSE, !.onTourComplete = NoId]
        c3 == cancelTransition(c2)
        c4 == [c3 EXCEPT !.isTransitioning = TRUE,
                         !.isFollowingARIA = FALSE,
                         !.transitionResolve = id]
    IN  IF c4.gsap
        THEN IF type = "return_start"
             THEN [c4 EXCEPT !.transitionTween = id,
                             !.tweens = @ \cup {[id |-> id, target |-> "position"]},
                             !.timers = @ \cup {id}]
             ELSE [c4 EXCEPT !.transitionTween = id,
                             !.tweens = @ \cup {[id |-> id, target |-> "curve"]}]
        ELSE finish(c4, id)

\* update(delta) that ends a non-looping tour one frame late
update_EndsLate(c, delta) ==
    IF c.isOrbiting THEN c
    ELSE IF c.isTouring
    THEN LET time == c.tourTime + delta
             c1 == [c EXCEPT !.tourTime = IF c.tourLoop THEN time % c.tourDuration
                                          ELSE IF time > c.tourDuration
                                               THEN c.tourDuration ELSE time]
         IN  IF ~c.tourLoop /\ time > c.tourDuration
             THEN LET c2 == [c1 EXCEPT !.isTouring = FALSE]
                  IN  IF c2.onTourComplete # NoId
                      THEN Emit([c2 EXCEPT !.onTourComplete = NoId],
                                "tour", c2.onTourComplete)
                      ELSE c2
             ELSE c1
    ELSE c

\* update(delta): orbit branch, tour branch, follow branch.
update(c, delta) ==
    IF c.isOrbiting THEN c
    ELSE IF c.isTouring
    THEN LET time == c.tourTime + delta
             c1 == [c EXCEPT !.tourTime = IF c.tourLoop THEN time % c.tourDuration
                                          ELSE IF time > c.tourDuration
                                               THEN c.tourDuration ELSE time]
         IN  IF ~c.tourLoop /\ time >= c.tourDuration
             THEN LET c2 == [c1 EXCEPT !.isTouring = FALSE]
                  IN  IF c2.onTourComplete # NoId
                      THEN Emit([c2 EXCEPT !.onTourComplete = NoId],
                                "tour", c2.onTourComplete)
                      ELSE c2
             ELSE c1
    ELSE c

\* gsap finishing a tween: the curve tweens carry onComplete: finish, the
\* return_start tween carries none.
tweenComplete(c, t) ==
    LET c1 == [c EXCEPT !.tweens = @ \ {t}]
    IN  IF t.target = "curve" THEN finish(c1, t.id) ELSE c1

\* setTimeout(finish, duration * 1000) armed by a return_start transition.
timerFinish(c, id) == finish([c EXCEPT !.timers = @ \ {id}], id)

\* ===================================================================
\* ARIA walk controller (aria.js)
\* ===================================================================
\* A completion closure of walkToPosition: the promise it resolves and the
\* requestId it captured.
NoCb == [id |-> NoId, req |-> 0]

Places == {"start", "elegance", "minimal", "luxury"}

\* module state after load (ariaGroup placed at ARIA_START_POS), or with the
\* avatar asset missing (ariaGroup = null).
AriaInit(loaded) ==
    [ loaded |-> loaded,
      ariaState |-> "idle",
      position |-> "start",
      walkStartPos |-> "start",
      walkEndPos |-> "start",
      walkElapsed |-> 0,
      walkDuration |-> 0,
      walkRequestId |-> 0,
      onWalkComplete |-> NoCb,
      pendingWalkResolve |-> NoCb,
      pendingWalkTimeout |-> NoCb,
      timers |-> {},
      out |-> << >> ]

\* clearTimeout(pendingWalkTimeout); pendingWalkTimeout = null
clearWalkTimeout(a) ==
    IF a.pendingWalkTimeout # NoCb
    THEN [a EXCEPT !.timers = @ \ {a.pendingWalkTimeout}, !.pendingWalkTimeout = NoCb]
    ELSE a

\* The closure stored in pendingWalkResolve / onWalkComplete by the walk cb.
walkResolve(a, cb) ==
    IF cb.req # a.walkRequestId THEN a
    ELSE Emit([clearWalkTimeout(a) EXCEPT !.onWalkComplete = NoCb,
                                          !.pendingWalkResolve = NoCb],
              "walk", cb.id)

\* walkToPosition with the request counter advanced before the previous
\* walk's closure is called (the closure's id guard then drops the call).
walkToPosition_CounterFirst(a, id, target) ==
    IF ~a.loaded THEN Emit(a, "walk", id)
    ELSE LET a0 == [a EXCEPT !.walkRequestId = @ + 1]
             a1 == IF a0.pendingWalkResolve # NoCb
                   THEN [walkResolve(a0, a0.pendingWalkResolve)
                            EXCEPT !.pendingWalkResolve = NoCb]
                   ELSE a0
             a2 == clearWalkTimeout(a1)
             cb == [id |-> id, req |-> a2.walkRequestId]
         IN  [a2 EXCEPT !.pendingWalkResolve = cb,
                        !.onWalkComplete = cb,
                        !.walkStartPos = a2.position,
                        !.walkEndPos = target,
                        !.walkElapsed = 0,
                        !.walkDuration = WalkTicks,
                        !.pendingWalkTimeout = cb,
                        !.timers = @ \cup {cb},
                        !.ariaState = "turning_to_target"]

\* walkToPosition that returns without resolving when the avatar is missing
walkToPosition_UnloadedHangs(a, id, target) ==
    IF ~a.loaded THEN a
    ELSE LET a1 == IF a.pendingWalkResolve # NoCb
                   THEN [walkResolve(a, a.pendingWalkResolve)
                            EXCEPT !.pendingWalkResolve = NoCb]
                   ELSE a
             a2 == clearWalkTimeout(a1)
             cb == [id |-> id, req |-> a2.walkRequestId + 1]
         IN  [a2 EXCEPT !.walkRequestId = cb.req,
                        !.pendingWalkResolve = cb,
                        !.onWalkComplete = cb,
                        !.walkStartPos = a2.position,
                        !.walkEndPos = target,
                        !.walkElapsed = 0,
                        !.walkDuration = WalkTicks,
                        !.pendingWalkTimeout = cb,
                        !.timers = @ \cup {cb},
                        !.ariaState = "turning_to_target"]

\* walkToPosition(targetPos) returning promise id.
walkToPosition(a, id, target) ==
    IF ~a.loaded THEN Emit(a, "walk", id)
    ELSE LET a1 == IF a.pendingWalkResolve # NoCb
                   THEN [walkResolve(a, a.pendingWalkResolve)
                            EXCEPT !.pendingWalkResolve = NoCb]
                   ELSE a
             a2 == clearWalkTimeout(a1)
             cb == [id |-> id, req |-> a2.walkRequestId + 1]
         IN  [a2 EXCEPT !.walkRequestId = cb.req,
                        !.pendingWalkResolve = cb,
                        !.onWalkComplete = cb,
                        !.walkStartPos = a2.position,
                        !.walkEndPos = target,
                        !.walkElapsed = 0,
                        !.walkDuration = WalkTicks,
                        !.pendingWalkTimeout = cb,
                        !.timers = @ \cup {cb},
                        !.ariaState = "turning_to_target"]

\* The safety timeout callback without its test of ariaState.
walkTimeout_AnyState(a, cb) ==
    LET a0 == [a EXCEPT !.timers = @ \ {cb}]
    IN  IF cb.req # a0.walkRequestId THEN a0
        ELSE LET a1 == [a0 EXCEPT !.position = a0.walkEndPos]
                 a2 == IF a1.onWalkComplete # NoCb
                       THEN walkResolve([a1 EXCEPT !.onWalkComplete = NoCb],
                                        a1.onWalkComplete)
                       ELSE a1
             IN  Emit(a2, "walk", cb.id)

\* The safety timeout callback armed by the walk cb.
walkTimeout(a, cb) ==
    LET a0 == [a EXCEPT !.timers = @ \ {cb}]
    IN  IF cb.req # a0.walkRequestId THEN a0
        ELSE IF a0.ariaState \notin {"idle", "speaking"}
        THEN LET a1 == [a0 EXCEPT !.position = a0.walkEndPos]
                 a2 == IF a1.onWalkComplete # NoCb
                       THEN walkResolve([a1 EXCEPT !.onWalkComplete = NoCb],
                                        a1.onWalkComplete)
                       ELSE a1
             IN  Emit(a2, "walk", cb.id)
        ELSE a0

\* updateTurningToTarget(delta); finished is dampRotation's verdict.
updateTurningToTarget(a, finished) ==
    IF finished THEN [a EXCEPT !.ariaState = "walking"] ELSE a

\* updateWalking(elapsed, delta)
updateWalking(a) ==
    LET e == a.walkElapsed + 1
    IN  IF e >= a.walkDuration
        THEN [a EXCEPT !.walkElapsed = a.walkDuration,
                       !.position = a.walkEndPos,
                       !.ariaState = "turning_to_camera"]
        ELSE [a EXCEPT !.walkElapsed = e,
                       !.position = IF a.walkStartPos = a.walkEndPos
                                    THEN a.walkEndPos ELSE "between"]

\* updateTurningToCamera that reaches speaking without calling onWalkComplete
updateTurningToCamera_NoCallback(a, finished) ==
    IF finished THEN [a EXCEPT !.ariaState = "speaking"] ELSE a

\* updateTurningToCamera(delta, camera)
updateTurningToCamera(a, finished) ==
    IF finished
    THEN LET a1 == [a EXCEPT !.ariaState = "speaking"]
         IN  IF a1.onWalkComplete # NoCb
             THEN walkResolve([a1 EXCEPT !.onWalkComplete = NoCb], a1.onWalkComplete)
             ELSE a1
    ELSE a

\* updateARIA whose speaking state falls back to idle on its own
updateARIA_SpeakingExits(a, finished) ==
    IF ~a.loaded THEN a
    ELSE CASE a.ariaState = "turning_to_target" -> updateTurningToTarget(a, finished)
           [] a.ariaState = "walking" -> updateWalking(a)
           [] a.ariaState = "turning_to_camera" -> updateTurningToCamera(a, finished)
           [] a.ariaState = "speaking" -> [a EXCEPT !.ariaState = "idle"]
           [] OTHER -> a

\* updateARIA(elapsed, camera, isSpeaking)
updateARIA(a, finished) ==
    IF ~a.loaded THEN a
    ELSE CASE a.ariaState = "turning_to_target" -> updateTurningToTarget(a, finished)
           [] a.ariaState = "walking" -> updateWalking(a)
           [] a.ariaState = "turning_to_camera" -> updateTurningToCamera(a, finished)
           [] OTHER -> a

\* resetToStart()
resetToStart(a) ==
    IF ~a.loaded THEN a
    ELSE [a EXCEPT !.ariaState = "idle", !.position = "start"]

\* ===================================================================
\* AudioSystem (audio.js)
\* ===================================================================
AudioInit ==
    [ current |-> "none", pending |-> NoId, speaking |-> FALSE,
      prepared |-> "none", out |-> << >> ]

\* stop(): playToken += 1 invalidates the pending onended closure.
audioStop(au) ==
    [au EXCEPT !.prepared = "none", !.current = "none",
               !.pending = NoId, !.speaking = FALSE]

\* prepareMoment(key)
prepareMoment(au, key) ==
    LET a1 == IF au.prepared \notin {"none", key}
              THEN [au EXCEPT !.prepared = "none"] ELSE au
        a2 == IF a1.current \notin {"none", key} THEN audioStop(a1) ELSE a1
    IN  [a2 EXCEPT !.prepared = key]

\* playMoment(key) returning promise id; ++playToken invalidates older closures.
playMoment(au, id, key) ==
    LET preparedPlaying == au.prepared = key
        a1 == IF ~preparedPlaying THEN audioStop(au)
              ELSE IF au.current \notin {"none", key} THEN audioStop(au)
              ELSE au
    IN  [a1 EXCEPT !.current = key, !.pending = id,
                   !.speaking = TRUE, !.prepared = "none"]

\* onended / onerror of the current track with a valid token.
audioEnded(au) ==
    Emit([au EXCEPT !.speaking = FALSE, !.current = "none", !.pending = NoId],
         "audio", au.pending)

\* ===================================================================
\* Orchestrator (main.js)
\* ===================================================================
VALID_COLLECTIONS == {"elegance", "minimal", "luxury"}

NoReq == [collection |-> "", source |-> ""]

\* a normalisation that falls back to the first collection for unknown text
Normalized_Fallback(text) ==
    CASE text = " Luxury " -> "luxury"
      [] text = "Minimal" -> "minimal"
      [] OTHER -> "elegance"

\* collection.toLowerCase().trim(), on the texts the inputs carry
Normalized(text) ==
    CASE text = " Luxury " -> "luxury"
      [] text = "Minimal" -> "minimal"
      [] OTHER -> text

\* parseCollectionRequest(input, sourceFallback): input is an object
\* {collection, source} or a string
parseCollectionRequest(input, sourceFallback) ==
    IF input.form = "object"
    THEN [collection |-> Normalized(input.collection), source |-> input.source]
    ELSE [collection |-> Normalized(input.collection), source |-> sourceFallback]

\* module state of main.js after init(); cameraController records whether the
\* module variable holds a controller (the existence checks read it)
OrchInit ==
    [ cameraController |-> TRUE,
      allowProductOrbit |-> FALSE,
      introState |-> FALSE,
      collectionRequestLock |-> FALSE,
      collectionRequestId |-> 0,
      pendingCollectionRequest |-> NoReq,
      cinematicState |-> 0,
      currentCollection |-> "elegance" ]

\* startExperience / playIntroSequence coroutines and the intro state object
IntroInit ==
    [ cancelled |-> FALSE, pcStart |-> "idle", pcIntro |-> "none",
      audioDone |-> FALSE ]

UIInit ==
    [ overlay |-> FALSE,
      collectionButtons |-> FALSE, productPanel |-> FALSE, subtitle |-> FALSE,
      stopCinematic |-> FALSE, skipIntro |-> FALSE, interactHint |-> FALSE,
      locked |-> FALSE ]

GhostInit ==
    [ stale |-> FALSE, overlap |-> FALSE, lastRequest |-> NoReq, queuedOnFirst |-> 0,
      closingShots |-> 0, accepted |-> 0, errors |-> 0, switchReturn |-> FALSE ]

\* one invocation of requestCollection that took the lock
NewWorkflow(parsed, requestId, pc) ==
    [ pc |-> pc, collection |-> parsed.collection, source |-> parsed.source,
      requestId |-> requestId,
      sessCancelled |-> FALSE, sessReason |-> "none",
      walkDone |-> FALSE, audioDone |-> FALSE, tourDone |-> FALSE,
      frameDuration |-> 0, revealed |-> FALSE ]

\* an invocation that returned: its arguments and locals are gone; what stays
\* is the session object it may have left in cinematicState and whether it
\* revealed the product panel
Returned(r) ==
    [ NewWorkflow(NoReq, 0, "done") EXCEPT !.sessCancelled = r.sessCancelled,
                                           !.sessReason = r.sessReason,
                                           !.revealed = r.revealed ]

\* the awaits inside handleCollectionSelect
InsideWorkflow == {"t300", "t500", "walk", "pwa", "race", "frame"}

IntroTransitions == {"t1", "t2", "t3", "t4", "t5"}
IntroWaits == {"w1", "w2", "w3", "w4"}

\* a continuation becomes runnable (promise reaction job)
Wake(w, co) ==
    IF \E k \in DOMAIN w.q : w.q[k] = co THEN w
    ELSE [w EXCEPT !.q = Append(@, co)]

\* Promise.all([walkBackPromise, cameraPromise]) of handleBack
BackReady(w, j) ==
    IF w.backs[j].pc = "await" /\ w.backs[j].walkDone /\ w.backs[j].camDone
    THEN Wake(w, <<"back", j>>) ELSE w

\* resolve() of promise e[2] ran: mark it and wake the coroutine awaiting it
\* (a coroutine that has returned holds no promise any more).
DeliverOne(w, e) ==
    LET id == e[2]
        n == id[2]
        step == id[3]
    IN  CASE id[1] = "wf" /\ w.wf[n].pc = "done" -> w
          [] id[1] = "back" /\ w.backs[n].pc = "done" -> w
          [] id[1] = "start" /\ w.intro.pcStart = "done" -> w
          [] id[1] = "wf" ->
              LET w1 == CASE step = "walk" -> [w EXCEPT !.wf[n].walkDone = TRUE]
                          [] step = "tour" -> [w EXCEPT !.wf[n].tourDone = TRUE]
                          [] step = "audio" -> [w EXCEPT !.wf[n].audioDone = TRUE]
                          [] OTHER -> w
                  ready == IF step \in {"tour", "audio"}
                           THEN /\ w1.wf[n].pc = "race"
                                /\ w1.wf[n].tourDone
                                /\ w1.wf[n].audioDone
                           ELSE w1.wf[n].pc = step
              IN  IF ready THEN Wake(w1, <<"wf", n>>) ELSE w1
          [] id[1] = "back" ->
              IF step = "walk"
              THEN BackReady([w EXCEPT !.backs[n].walkDone = TRUE], n)
              ELSE BackReady([w EXCEPT !.backs[n].camDone = TRUE], n)
          [] id[1] = "intro" ->
              IF w.intro.pcIntro \in {step, "parked"}
              THEN Wake(w, <<"intro", 0>>) ELSE w
          [] id[1] = "start" ->
              LET w1 == [w EXCEPT !.intro.audioDone = TRUE]
              IN  IF w1.intro.pcStart = "audio" THEN Wake(w1, <<"start", 0>>) ELSE w1
          [] OTHER -> w

RECURSIVE DeliverAll(_, _)
DeliverAll(w, out) ==
    IF out = << >> THEN w
    ELSE DeliverAll(DeliverOne(w, Head(out)), Tail(out))

\* the world after a camera / avatar / audio call, its callbacks delivered
WithCam(w, c) == DeliverAll([w EXCEPT !.cam = [c EXCEPT !.out = << >>]], c.out)
WithAria(w, a) == DeliverAll([w EXCEPT !.aria = [a EXCEPT !.out = << >>]], a.out)
WithAudio(w, au) == DeliverAll([w EXCEPT !.audio = [au EXCEPT !.out = << >>]], au.out)

\* isActiveRequest() answering true whatever the current request id is
isActiveRequest_Always(w, i) == w.wf[i].requestId = w.wf[i].requestId

\* isActiveRequest() of workflow i
isActiveRequest(w, i) == w.wf[i].requestId = w.o.collectionRequestId

\* the lock test of requestCollection never finding the lock taken
isLocked_Never(w) == w.o.collectionRequestLock /\ ~w.o.collectionRequestLock

\* if (collectionRequestLock)
isLocked(w) == w.o.collectionRequestLock

\* ghost: workflow i is about to drive UI / camera / avatar / narration
Acts(w, i) ==
    [w EXCEPT !.g.stale = @ \/ w.wf[i].requestId # w.o.collectionRequestId]

\* ghost: the same, for a block that may turn out to change nothing
ActsIfChanged(before, after, i) ==
    IF after.cam # before.cam \/ after.ui # before.ui \/ after.audio # before.audio
    THEN Acts(after, i) ELSE after

\* ghost: workflow i enters handleCollectionSelect; is another one inside it?
Entering(w, i) ==
    [w EXCEPT !.g.overlap = @ \/ \E k \in DOMAIN w.wf :
                                    k # i /\ w.wf[k].pc \in InsideWorkflow]

\* the calls main.js makes on cameraController, audioSystem and the avatar,
\* each followed by the promise callbacks the call itself invoked
cameraController_transitionTo(w, id, type) == WithCam(w, transitionTo(w.cam, id, type))
cameraController_cancelTransition(w) == WithCam(w, cancelTransition(w.cam))
cameraController_stopTour(w) == WithCam(w, stopTour(w.cam))
cameraController_disableOrbitMode(w) == WithCam(w, disableOrbitMode(w.cam))
cameraController_enableOrbitMode(w) == WithCam(w, enableOrbitMode(w.cam))
cameraController_followARIA(w, active) == WithCam(w, followARIA(w.cam, active))
cameraController_playProductCinematic(w, id) ==
    WithCam(w, playTour(w.cam, id, MaxTourTicks))
cameraController_update(w) == WithCam(w, update(w.cam, 1))
audioSystem_stop(w) == WithAudio(w, audioStop(w.audio))
audioSystem_playMoment(w, id, key) == WithAudio(w, playMoment(w.audio, id, key))
audioSystem_prepareCollection(w, key) == WithAudio(w, prepareMoment(w.audio, key))
walkToProduct(w, id, collection) == WithAria(w, walkToPosition(w.aria, id, collection))
walkToStart(w, id) == WithAria(w, walkToPosition(w.aria, id, "start"))

\* cancelActiveCinematic(reason) without its test of cinematicState.cancelled
cancelActiveCinematic_Again(w, reason) ==
    LET k == w.o.cinematicState
        cancel(x) == [x EXCEPT !.wf[k].sessCancelled = TRUE,
                               !.wf[k].sessReason = reason]
        hide(x) == [x EXCEPT !.ui.subtitle = FALSE, !.ui.stopCinematic = FALSE]
        resolve(x) == IF x.wf[k].pc = "race" THEN Wake(x, <<"wf", k>>) ELSE x
    IN  IF k = 0 THEN w
        ELSE resolve(hide(cameraController_stopTour(audioSystem_stop(cancel(w)))))

\* cancelActiveCinematic(reason)
cancelActiveCinematic(w, reason) ==
    LET k == w.o.cinematicState
        cancel(x) == [x EXCEPT !.wf[k].sessCancelled = TRUE,
                               !.wf[k].sessReason = reason]
        hide(x) == [x EXCEPT !.ui.subtitle = FALSE, !.ui.stopCinematic = FALSE]
        resolve(x) == IF x.wf[k].pc = "race" THEN Wake(x, <<"wf", k>>) ELSE x
    IN  IF k = 0 THEN w
        ELSE IF w.wf[k].sessCancelled THEN w
        ELSE resolve(hide(cameraController_stopTour(audioSystem_stop(cancel(w)))))

\* cameraController.cancelTransition(); stopTour(); disableOrbitMode()
cancelCameraModes(w) ==
    cameraController_disableOrbitMode(
        cameraController_stopTour(cameraController_cancelTransition(w)))

\* skipIntro() without its guard on introState
skipIntro_Unguarded(w, id) ==
    LET cancel(x) == [x EXCEPT !.intro.cancelled = TRUE]
        cancelHooks(x) ==
            IF x.intro.pcIntro \in IntroWaits THEN Wake(x, <<"intro", 0>>)
            ELSE IF x.intro.pcIntro \in IntroTransitions
            THEN [x EXCEPT !.intro.pcIntro = "parked"]
            ELSE x
        skipResolve(x) ==
            IF x.intro.pcStart = "race" THEN Wake(x, <<"start", 0>>) ELSE x
        unlock(x) == [x EXCEPT !.ui.collectionButtons = TRUE,
                               !.ui.locked = FALSE,
                               !.ui.skipIntro = FALSE,
                               !.o.introState = FALSE,
                               !.g.closingShots = @ + 1]
    IN  unlock(cameraController_transitionTo(
                    cameraController_cancelTransition(
                        audioSystem_stop(skipResolve(cancelHooks(cancel(w))))),
                    id, "custom"))

\* skipIntro(); id names the promise of the closing-shot transition it returns
\* (without a camera controller it returns null and starts no transition).
\* A sequence cancelled while it awaits a transition returns at its next
\* resumption whichever transition that is: it is recorded as "parked".
skipIntro(w, id) ==
    LET cancel(x) == [x EXCEPT !.intro.cancelled = TRUE]
        cancelHooks(x) ==
            IF x.intro.pcIntro \in IntroWaits THEN Wake(x, <<"intro", 0>>)
            ELSE IF x.intro.pcIntro \in IntroTransitions
            THEN [x EXCEPT !.intro.pcIntro = "parked"]
            ELSE x
        skipResolve(x) ==
            IF x.intro.pcStart = "race" THEN Wake(x, <<"start", 0>>) ELSE x
        unlock(x) == [x EXCEPT !.ui.collectionButtons = TRUE,
                               !.ui.locked = FALSE,
                               !.ui.skipIntro = FALSE,
                               !.o.introState = FALSE,
                               !.g.closingShots = @ + 1]
    IN  IF ~w.o.introState \/ w.intro.cancelled THEN w
        ELSE IF ~w.o.cameraController
        THEN [unlock(audioSystem_stop(skipResolve(cancelHooks(cancel(w)))))
                 EXCEPT !.g.closingShots = w.g.closingShots]
        ELSE unlock(cameraController_transitionTo(
                        cameraController_cancelTransition(
                            audioSystem_stop(skipResolve(cancelHooks(cancel(w))))),
                        id, "custom"))

\* `return` inside the try block of requestCollection's workflow i
Return(w, i) == [w EXCEPT !.wf[i].pc = "return"]

RECURSIVE requestCollection(_, _, _)

\* the finally block of the requestCollection call that runs workflow i
releaseAndStartPending(w, i) ==
    LET release(x) == [x EXCEPT !.wf[i] = Returned(@),
                                !.o.collectionRequestLock = FALSE]
        startPending(x) ==
            IF x.o.pendingCollectionRequest # NoReq
            THEN requestCollection([x EXCEPT !.o.pendingCollectionRequest = NoReq],
                                   [form |-> "string", source |-> "",
                                    collection |-> x.o.pendingCollectionRequest.collection],
                                   x.o.pendingCollectionRequest.source)
            ELSE x
    IN  startPending(release(w))

\* try { ... } finally { ... }: the finally block runs when the body returned
Finally(w, i) ==
    IF w.wf[i].pc = "return" THEN releaseAndStartPending(w, i) ELSE w

\* handleCollectionSelect up to its first await (setTimeout 300)
handleCollectionSelect(w, i) ==
    LET cancelled(x) ==
            ActsIfChanged(x, cancelCameraModes(cancelActiveCinematic(x, "switch")), i)
        select(x) ==
            [x EXCEPT !.o.currentCollection = x.wf[i].collection,
                      !.ui.collectionButtons = FALSE,
                      !.ui.interactHint = FALSE,
                      !.ui.productPanel = FALSE,
                      !.o.allowProductOrbit = FALSE,
                      !.wf[i].pc = "t300"]
        body(x) ==
            IF ~isActiveRequest(x, i) THEN Return(x, i)
            ELSE audioSystem_prepareCollection(select(Acts(x, i)), x.wf[i].collection)
    IN  body(cancelled(Entering(w, i)))

\* pendingCollectionRequest = parsed; collectionRequestId += 1, keeping only
\* the first request of a burst
queuePending_KeepFirst(w, parsed) ==
    [w EXCEPT !.o.pendingCollectionRequest = IF @ = NoReq THEN parsed ELSE @,
              !.o.collectionRequestId = @ + 1,
              !.g.lastRequest = parsed,
              !.g.queuedOnFirst = IF Len(w.wf) = 1 THEN @ + 1 ELSE @]

\* pendingCollectionRequest = parsed, leaving collectionRequestId as it is
queuePending_NoBump(w, parsed) ==
    [w EXCEPT !.o.pendingCollectionRequest = parsed,
              !.g.lastRequest = parsed,
              !.g.queuedOnFirst = IF Len(w.wf) = 1 THEN @ + 1 ELSE @]

\* pendingCollectionRequest = parsed; collectionRequestId += 1
queuePending(w, parsed) ==
    [w EXCEPT !.o.pendingCollectionRequest = parsed,
              !.o.collectionRequestId = @ + 1,
              !.g.lastRequest = parsed,
              !.g.queuedOnFirst = IF Len(w.wf) = 1 THEN @ + 1 ELSE @]

\* requestCollection(input, source) up to its first await
requestCollection(w, input, source) ==
    LET parsed == parseCollectionRequest(input, source)
        i == Len(w.wf) + 1
        accept(x) == [x EXCEPT !.g.accepted = @ + 1]
        take(x, pc) == [x EXCEPT !.o.collectionRequestLock = TRUE,
                                 !.o.collectionRequestId = @ + 1,
                                 !.g.accepted = @ + 1,
                                 !.g.lastRequest = parsed,
                                 !.wf = Append(@, NewWorkflow(parsed,
                                            x.o.collectionRequestId + 1, pc))]
    IN  IF parsed.collection \notin VALID_COLLECTIONS THEN w
        ELSE IF isLocked(w)
        THEN cancelCameraModes(
                cancelActiveCinematic(queuePending(accept(w), parsed), "switch"))
        ELSE IF w.o.introState /\ ~w.intro.cancelled
        THEN skipIntro(take(w, "skipWait"), <<"wf", i, "skipWait">>)
        ELSE Finally(handleCollectionSelect(take(w, "enter"), i), i)

\* handleCollectionSelect resumed after `await new Promise(r => setTimeout(r, 300))`
afterWait300(w, i) ==
    IF ~isActiveRequest(w, i) THEN Return(w, i)
    ELSE walkToProduct([Acts(w, i) EXCEPT !.wf[i].pc = "t500"],
                       <<"wf", i, "walk">>, w.wf[i].collection)

\* ... after the 500 ms wait, going on to the product transition without
\* awaiting walkPromise
afterWait500_NoWalkAwait(w, i) ==
    IF ~isActiveRequest(w, i) THEN Return(w, i)
    ELSE cameraController_transitionTo(
            [cameraController_followARIA(Acts(w, i), TRUE) EXCEPT !.wf[i].pc = "pwa"],
            <<"wf", i, "pwa">>, "product_with_aria")

\* ... after the 500 ms wait: followARIA(true); await walkPromise
afterWait500(w, i) ==
    LET await(x) == IF x.wf[i].walkDone THEN Wake(x, <<"wf", i>>) ELSE x
        typeError(x) == [Return(x, i) EXCEPT !.g.errors = @ + 1]
    IN  IF ~isActiveRequest(w, i) THEN Return(w, i)
        ELSE IF ~w.o.cameraController THEN typeError(w)
        ELSE await([cameraController_followARIA(Acts(w, i), TRUE)
                       EXCEPT !.wf[i].pc = "walk"])

\* ... after walkPromise: followARIA(false); await transitionTo('product_with_aria')
afterWalk(w, i) ==
    IF ~isActiveRequest(w, i) THEN Return(w, i)
    ELSE cameraController_transitionTo(
            [cameraController_followARIA(Acts(w, i), FALSE) EXCEPT !.wf[i].pc = "pwa"],
            <<"wf", i, "pwa">>, "product_with_aria")

\* ... after the product transition: subtitle, cinematic session, narration
\* and orbiting tour, then the race against the session's signal
afterProductTransition(w, i) ==
    IF ~isActiveRequest(w, i) THEN Return(w, i)
    ELSE cameraController_playProductCinematic(
            audioSystem_playMoment(
                [Acts(w, i) EXCEPT !.ui.subtitle = TRUE,
                                   !.ui.stopCinematic = TRUE,
                                   !.o.cinematicState = i,
                                   !.wf[i].pc = "race"],
                <<"wf", i, "audio">>, w.wf[i].collection),
            <<"wf", i, "tour">>)

\* ... after the race, with the framing shot at its full duration whoever
\* ended the cinematic
afterCinematicRace_FullDuration(w, i) ==
    LET closeSession(x) == [x EXCEPT !.ui.stopCinematic = FALSE,
                                     !.o.cinematicState = IF @ = i THEN 0 ELSE @]
    IN  IF ~isActiveRequest(w, i) THEN Return(w, i)
        ELSE IF w.wf[i].sessCancelled /\ w.wf[i].sessReason = "switch"
        THEN Return(closeSession(Acts(w, i)), i)
        ELSE cameraController_transitionTo(
                [closeSession(Acts(w, i))
                    EXCEPT !.ui.subtitle = FALSE,
                           !.wf[i].frameDuration = 14,
                           !.wf[i].pc = "frame"],
                <<"wf", i, "frame">>, "custom")

\* ... after the race: superseded / switch return, else the framing shot
afterCinematicRace(w, i) ==
    LET cancelledByUser == w.wf[i].sessCancelled /\ w.wf[i].sessReason = "user"
        closeSession(x) == [x EXCEPT !.ui.stopCinematic = FALSE,
                                     !.o.cinematicState = IF @ = i THEN 0 ELSE @]
        switchReturn(x) == [x EXCEPT !.g.switchReturn = TRUE]
    IN  IF ~isActiveRequest(w, i) THEN Return(w, i)
        ELSE IF w.wf[i].sessCancelled /\ w.wf[i].sessReason = "switch"
        THEN Return(switchReturn(closeSession(Acts(w, i))), i)
        ELSE cameraController_transitionTo(
                [closeSession(Acts(w, i))
                    EXCEPT !.ui.subtitle = FALSE,
                           !.wf[i].frameDuration = IF cancelledByUser THEN 9 ELSE 14,
                           !.wf[i].pc = "frame"],
                <<"wf", i, "frame">>, "custom")

\* ... after frameAriaAndProduct: reveal the product panel, allow orbit
afterFraming(w, i) ==
    IF ~isActiveRequest(w, i) THEN Return(w, i)
    ELSE Return([Acts(w, i) EXCEPT !.ui.productPanel = TRUE,
                                   !.ui.interactHint = TRUE,
                                   !.o.allowProductOrbit = TRUE,
                                   !.wf[i].revealed = TRUE], i)

\* the continuation of workflow i at its current await
resumeWorkflow(w, i) ==
    LET pc == w.wf[i].pc
        body == CASE pc = "skipWait" -> handleCollectionSelect(w, i)
                  [] pc = "t300" -> afterWait300(w, i)
                  [] pc = "t500" -> afterWait500(w, i)
                  [] pc = "walk" -> afterWalk(w, i)
                  [] pc = "pwa" -> afterProductTransition(w, i)
                  [] pc = "race" -> afterCinematicRace(w, i)
                  [] pc = "frame" -> afterFraming(w, i)
                  [] OTHER -> w
    IN  Finally(body, i)

\* playIntroSequence returns: its promise resolves, which settles the race
introReturn(w) ==
    IF w.intro.pcStart = "race"
    THEN Wake([w EXCEPT !.intro.pcIntro = "done"], <<"start", 0>>)
    ELSE [w EXCEPT !.intro.pcIntro = "done"]

NextIntroTransition(pc) ==
    CASE pc = "w1" -> "t2" [] pc = "w2" -> "t3" [] pc = "w3" -> "t4" [] pc = "w4" -> "t5"

NextIntroWait(pc) ==
    CASE pc = "t1" -> "w1" [] pc = "t2" -> "w2" [] pc = "t3" -> "w3" [] pc = "t4" -> "w4"

\* the continuation of playIntroSequence at its current await
resumeIntro(w) ==
    LET pc == w.intro.pcIntro
    IN  IF pc \in {"t5", "parked"} THEN introReturn(w)
        ELSE IF pc \in IntroTransitions
        THEN IF w.intro.cancelled THEN introReturn(w)
             ELSE [w EXCEPT !.intro.pcIntro = NextIntroWait(pc)]
        ELSE IF pc \in IntroWaits
        THEN IF w.intro.cancelled THEN introReturn(w)
             ELSE cameraController_transitionTo(
                     [w EXCEPT !.intro.pcIntro = NextIntroTransition(pc)],
                     <<"intro", 0, NextIntroTransition(pc)>>, "custom")
        ELSE w

\* the continuation of startExperience at its current await
resumeStart(w) ==
    LET pc == w.intro.pcStart
        awaitAudio(x) == IF x.intro.audioDone THEN Wake(x, <<"start", 0>>) ELSE x
        shown(x) == audioSystem_playMoment(
                        [x EXCEPT !.ui.overlay = TRUE,
                                  !.o.introState = TRUE,
                                  !.intro.cancelled = FALSE,
                                  !.ui.skipIntro = TRUE,
                                  !.intro.pcStart = "race",
                                  !.intro.pcIntro = "t1"],
                        <<"start", 0, "audio">>, "apertura")
    IN  CASE pc = "hideIntro" ->
              IF w.o.cameraController
              THEN cameraController_transitionTo(shown(w), <<"intro", 0, "t1">>, "custom")
              ELSE introReturn(shown(w))
          [] pc = "race" ->
              IF w.o.introState /\ ~w.intro.cancelled
              THEN awaitAudio([w EXCEPT !.intro.pcStart = "audio"])
              ELSE [w EXCEPT !.intro.pcStart = "done", !.intro.audioDone = FALSE]
          [] pc = "audio" -> [w EXCEPT !.intro.pcStart = "t500"]
          [] pc = "t500" ->
              [w EXCEPT !.ui.collectionButtons = TRUE,
                        !.ui.locked = FALSE,
                        !.ui.skipIntro = FALSE,
                        !.o.introState = FALSE,
                        !.intro.pcStart = "done",
                        !.intro.audioDone = FALSE]
          [] OTHER -> w

\* startExperience() up to `await uiController.hideIntro()`
startExperience(w) ==
    [w EXCEPT !.ui.locked = TRUE, !.intro.pcStart = "hideIntro"]

\* handleBack() up to `await Promise.all([walkBackPromise, cameraPromise])`
handleBack(w) ==
    LET j == Len(w.backs) + 1
    IN  cameraController_transitionTo(
            walkToStart(
                cameraController_disableOrbitMode(
                    [w EXCEPT !.ui.productPanel = FALSE,
                              !.ui.interactHint = FALSE,
                              !.o.allowProductOrbit = FALSE,
                              !.backs = Append(@, [pc |-> "await", walkDone |-> FALSE,
                                                   camDone |-> FALSE, safety |-> TRUE])]),
                <<"back", j, "walk">>),
            <<"back", j, "cam">>, "return_start")

\* handleBack resumed: uiController.showCollectionButtons()
resumeBack(w, j) ==
    [w EXCEPT !.ui.collectionButtons = TRUE,
              !.backs[j] = [pc |-> "done", walkDone |-> FALSE,
                            camDone |-> FALSE, safety |-> @.safety]]

\* onMouseClick on the product while the panel is shown and orbit is allowed
onMouseClick(w) ==
    [cameraController_enableOrbitMode(w) EXCEPT !.ui.interactHint = FALSE]

\* animate(): updateARIA(...) then cameraController.update(delta)
animate(w, finished) ==
    cameraController_update(WithAria(w, updateARIA(w.aria, finished)))

\* ===================================================================
\* The camera controller driven by an arbitrary caller (SpecCam)
\* ===================================================================
vars == <<cam, aria, resolveCount, camCalls, walkCalls,
          audio, orch, wf, intro, backs, ui, ghost, calc>>

orchVars == <<audio, orch, wf, intro, backs, ui, ghost, calc>>

nonCamVars == <<aria, walkCalls, orchVars>>
nonAriaVars == <<cam, camCalls, orchVars>>

\* every callback in out is one more resolve() of that promise
Counted(count, out) ==
    [id \in DOMAIN count |->
        count[id] + Cardinality({i \in DOMAIN out : out[i][2] = id})]

CamStep(c, newIds) ==
    /\ cam' = [c EXCEPT !.out = << >>]
    /\ UNCHANGED nonCamVars
    /\ resolveCount' = Counted([id \in DOMAIN resolveCount \cup newIds |->
                                   IF id \in DOMAIN resolveCount
                                   THEN resolveCount[id] ELSE 0], c.out)

CamInit ==
    /\ cam \in {CameraInit(g) : g \in BOOLEAN}
    /\ aria = AriaInit(TRUE)
    /\ audio = AudioInit
    /\ orch = OrchInit
    /\ wf = << >>
    /\ intro = IntroInit
    /\ backs = << >>
    /\ ui = UIInit
    /\ ghost = GhostInit
    /\ calc = NoCalc
    /\ resolveCount = << >>
    /\ camCalls = 0
    /\ walkCalls = 0

CamTransitionTo ==
    /\ camCalls < MaxCamCalls
    /\ \E type \in TransitionTypes :
          LET id == <<"transition", camCalls + 1, type>>
          IN  CamStep(transitionTo(cam, id, type), {id})
    /\ camCalls' = camCalls + 1

CamPlayTour ==
    /\ camCalls < MaxCamCalls
    /\ \E d \in 1..MaxTourLength :
          LET id == <<"tour", camCalls + 1, "playTour">>
          IN  CamStep(playTour(cam, id, d), {id})
    /\ camCalls' = camCalls + 1

CamStartTour ==
    /\ \E loop \in BOOLEAN, d \in 1..MaxTourLength :
          CamStep(startTour(cam, loop, d, NoId), {})
    /\ UNCHANGED camCalls

CamCancelTransition == CamStep(cancelTransition(cam), {}) /\ UNCHANGED camCalls
CamStopTour == CamStep(stopTour(cam), {}) /\ UNCHANGED camCalls
CamStopShowroomTour == CamStep(stopShowroomTour(cam), {}) /\ UNCHANGED camCalls
CamEnableOrbitMode == CamStep(enableOrbitMode(cam), {}) /\ UNCHANGED camCalls
CamDisableOrbitMode == CamStep(disableOrbitMode(cam), {}) /\ UNCHANGED camCalls
CamFollowARIA == (\E a \in BOOLEAN : CamStep(followARIA(cam, a), {})) /\ UNCHANGED camCalls
CamUpdate == CamStep(update(cam, 1), {}) /\ UNCHANGED camCalls
CamTweenComplete ==
    (\E t \in cam.tweens : CamStep(tweenComplete(cam, t), {})) /\ UNCHANGED camCalls
CamTimerFire ==
    (\E id \in cam.timers : CamStep(timerFinish(cam, id), {})) /\ UNCHANGED camCalls

CamNext ==
    \/ CamTransitionTo
    \/ CamPlayTour
    \/ CamStartTour
    \/ CamCancelTransition
    \/ CamStopTour
    \/ CamStopShowroomTour
    \/ CamEnableOrbitMode
    \/ CamDisableOrbitMode
    \/ CamFollowARIA
    \/ CamUpdate
    \/ CamTweenComplete
    \/ CamTimerFire

SpecCam == CamInit /\ [][CamNext]_vars

\* ===================================================================
\* The walk controller driven by an arbitrary caller (SpecAria)
\* ===================================================================
AriaStep(a, newIds) ==
    /\ aria' = [a EXCEPT !.out = << >>]
    /\ UNCHANGED nonAriaVars
    /\ resolveCount' = Counted([id \in DOMAIN resolveCount \cup newIds |->
                                   IF id \in DOMAIN resolveCount
                                   THEN resolveCount[id] ELSE 0], a.out)

AriaSpecInit ==
    /\ cam = CameraInit(TRUE)
    /\ aria \in {AriaInit(l) : l \in BOOLEAN}
    /\ audio = AudioInit
    /\ orch = OrchInit
    /\ wf = << >>
    /\ intro = IntroInit
    /\ backs = << >>
    /\ ui = UIInit
    /\ ghost = GhostInit
    /\ calc = NoCalc
    /\ resolveCount = << >>
    /\ camCalls = 0
    /\ walkCalls = 0

AriaWalkToPosition ==
    /\ walkCalls < MaxWalkCalls
    /\ \E target \in Places, d \in 1..MaxWalkFrames :
          LET id == <<"walk", walkCalls + 1, target>>
              walk == walkToPosition(aria, id, target)
          IN  AriaStep(IF walk.loaded THEN [walk EXCEPT !.walkDuration = d] ELSE walk,
                       {id})
    /\ walkCalls' = walkCalls + 1

AriaUpdate ==
    (\E finished \in BOOLEAN : AriaStep(updateARIA(aria, finished), {}))
    /\ UNCHANGED walkCalls

AriaWalkTimeout ==
    (\E cb \in aria.timers : AriaStep(walkTimeout(aria, cb), {})) /\ UNCHANGED walkCalls

AriaResetToStart == AriaStep(resetToStart(aria), {}) /\ UNCHANGED walkCalls

AriaNext ==
    \/ AriaWalkToPosition
    \/ AriaUpdate
    \/ AriaWalkTimeout
    \/ AriaResetToStart

SpecAria == AriaSpecInit /\ [][AriaNext]_vars

\* The walk controller when every armed safety timer eventually fires; frames
\* (updateARIA) and further calls may stop at any time.
SpecAriaLive == AriaSpecInit /\ [][AriaNext]_vars /\ WF_vars(AriaWalkTimeout)

\* ===================================================================
\* The whole showroom: events of the browser driving main.js (Spec)
\* ===================================================================
\* what a collection button or the voice detector can hand to requestCollection
RequestInputs ==
    { [form |-> "string", collection |-> "Minimal", source |-> ""],
      [form |-> "object", collection |-> " Luxury ", source |-> "voice"],
      [form |-> "object", collection |-> "sofa", source |-> "voice"] }

World ==
    [ cam |-> cam, aria |-> aria, audio |-> audio, o |-> orch, wf |-> wf,
      intro |-> intro, backs |-> backs, ui |-> ui, q |-> << >>, g |-> ghost ]

\* one continuation, resumed at its current await
resume(w, co) ==
    CASE co[1] = "wf" -> resumeWorkflow(w, co[2])
      [] co[1] = "intro" -> resumeIntro(w)
      [] co[1] = "start" -> resumeStart(w)
      [] co[1] = "back" -> resumeBack(w, co[2])

\* the microtask checkpoint: runnable continuations run, oldest first, until
\* none is left
RECURSIVE Settle(_)
Settle(w) ==
    IF w.q = << >> THEN w
    ELSE Settle(resume([w EXCEPT !.q = Tail(@)], Head(w.q)))

\* the variables take the fields of world w
Assign(w) ==
    /\ cam' = w.cam
    /\ aria' = w.aria
    /\ audio' = w.audio
    /\ orch' = w.o
    /\ wf' = w.wf
    /\ intro' = w.intro
    /\ backs' = w.backs
    /\ ui' = w.ui
    /\ ghost' = w.g
    /\ UNCHANGED <<resolveCount, camCalls, walkCalls, calc>>

\* the state after the handler's macrotask: handler, then its microtasks
Becomes(handled) == Assign(Settle(handled))

Init ==
    /\ cam = CameraInit(TRUE)
    /\ aria = AriaInit(TRUE)
    /\ audio = AudioInit
    /\ orch = OrchInit
    /\ wf = << >>
    /\ intro = IntroInit
    /\ backs = << >>
    /\ ui = UIInit
    /\ ghost = GhostInit
    /\ calc = NoCalc
    /\ resolveCount = << >>
    /\ camCalls = 0
    /\ walkCalls = 0

\* a collection button click or an aria:collectionSelect event
RequestCollection ==
    /\ ui.overlay
    /\ \E input \in RequestInputs :
          /\ Normalized(input.collection) \in VALID_COLLECTIONS
                => orch.collectionRequestId < MaxRequests
          /\ Becomes(requestCollection(World, input, "ui"))

\* click on btn-start (the intro screen is still up)
StartExperience ==
    /\ intro.pcStart = "idle"
    /\ Becomes(startExperience(World))

\* hideIntro()'s fade finished
HideIntroDone ==
    /\ intro.pcStart = "hideIntro"
    /\ Becomes(Wake(World, <<"start", 0>>))

\* the click handler of the skip-intro button runs (skipIntro itself decides
\* whether there is an intro left to skip)
SkipIntroClick ==
    /\ ui.overlay
    /\ Becomes(skipIntro(World, <<"skipbtn", 0, "">>))

\* click on the stop-cinematic button
StopCinematicClick ==
    /\ ui.stopCinematic
    /\ Becomes(cancelActiveCinematic(World, "user"))

\* click on btn-back in the product panel
HandleBack ==
    /\ ui.productPanel
    /\ Len(backs) < MaxBacks
    /\ Becomes(handleBack(World))

\* click on the product in the canvas
MouseClick ==
    /\ ui.productPanel
    /\ orch.allowProductOrbit
    /\ ~cam.isOrbiting
    /\ Becomes(onMouseClick(World))

\* requestAnimationFrame callback
Animate ==
    /\ \E finished \in BOOLEAN : Becomes(animate(World, finished))

\* gsap completes a camera tween
TweenComplete ==
    /\ \E t \in cam.tweens : Becomes(WithCam(World, tweenComplete(cam, t)))

\* the setTimeout(finish) of a return_start transition fires
TransitionTimer ==
    /\ \E id \in cam.timers : Becomes(WithCam(World, timerFinish(cam, id)))

\* the walk safety timeout fires
WalkTimeout ==
    /\ \E cb \in aria.timers : Becomes(WithAria(World, walkTimeout(aria, cb)))

\* the current narration track ends (or errors)
AudioEnded ==
    /\ audio.pending # NoId
    /\ Becomes(WithAudio(World, audioEnded(audio)))

\* the 300 ms / 500 ms timer a workflow awaits fires, or the 1400 ms timer
\* requestCollection awaits when skipIntro returned no promise
WorkflowTimer ==
    /\ \E i \in DOMAIN wf :
          /\ \/ wf[i].pc \in {"t300", "t500"}
             \/ wf[i].pc = "skipWait" /\ ~orch.cameraController
          /\ Becomes(Wake(World, <<"wf", i>>))

\* the waitWithCancel timer of the intro sequence fires
IntroWaitTimer ==
    /\ intro.pcIntro \in IntroWaits
    /\ Becomes(Wake(World, <<"intro", 0>>))

\* the 500 ms timer at the tail of startExperience fires
StartTailTimer ==
    /\ intro.pcStart = "t500"
    /\ Becomes(Wake(World, <<"start", 0>>))

\* the 3500 ms safety timer of a handleBack fires
BackSafetyTimer ==
    /\ \E j \in DOMAIN backs :
          /\ backs[j].safety
          /\ Becomes(DeliverOne([World EXCEPT !.backs[j].safety = FALSE],
                                 <<"walk", <<"back", j, "walk">>>>))

Next ==
    \/ RequestCollection
    \/ StartExperience
    \/ HideIntroDone
    \/ SkipIntroClick
    \/ StopCinematicClick
    \/ HandleBack
    \/ MouseClick
    \/ Animate
    \/ TweenComplete
    \/ TransitionTimer
    \/ WalkTimeout
    \/ AudioEnded
    \/ WorkflowTimer
    \/ IntroWaitTimer
    \/ StartTailTimer
    \/ BackSafetyTimer

Spec == Init /\ [][Next]_vars

\* ===================================================================
\* Properties of the camera controller
\* ===================================================================
TransitionIds == {id \in DOMAIN resolveCount : id[1] = "transition"}
TourIds == {id \in DOMAIN resolveCount : id[1] = "tour"}

\* No tween is running and no finish timer is armed: nothing is left that
\* could still call a transition's finish on its own.
CamQuiescent == cam.tweens = {} /\ cam.timers = {}

\* C4: every promise returned by transitionTo is resolved exactly once: its
\* resolve never runs twice, and once no tween or timer is left every
\* transition promise handed out has been resolved (by completion or by
\* cancellation).
C4_TransitionResolvedExactlyOnce ==
    /\ \A id \in TransitionIds : resolveCount[id] <= 1
    /\ CamQuiescent => \A id \in TransitionIds : resolveCount[id] = 1

\* C5: the completion callback of a playTour promise is never dropped: the
\* promise is either resolved exactly once or its callback is still the
\* controller's pending onTourComplete.
C5_TourCallbackNeverDropped ==
    \A id \in TourIds :
        \/ resolveCount[id] = 1
        \/ resolveCount[id] = 0 /\ cam.onTourComplete = id

\* ===================================================================
\* Properties of the walk controller
\* ===================================================================
WalkIds == {id \in DOMAIN resolveCount : id[1] = "walk"}

\* C6: a second walkToPosition issued while the first walk's signal is still
\* unresolved resolves that signal in the same call, exactly once; from then
\* on nothing (safety timeout, arrival of the state machine) changes the
\* number of resolutions of a superseded walk, and no timeout of a superseded
\* walk stays armed to act for the newer one.
C6_SupersededWalkResolvedOnce ==
    [][ /\ \A id \in WalkIds :
              ( /\ aria.loaded
                /\ id[2] = aria.walkRequestId
                /\ aria'.walkRequestId > id[2]
                /\ resolveCount[id] = 0 ) => resolveCount'[id] = 1
        /\ \A id \in WalkIds :
              id[2] < aria.walkRequestId => resolveCount'[id] = resolveCount[id]
        /\ \A cb \in aria'.timers : cb.req = aria'.walkRequestId
      ]_vars

\* A walk was superseded while unresolved and a second walk is in flight.
C6_Witness ==
    \E id \in WalkIds :
        /\ id[2] < aria.walkRequestId
        /\ resolveCount[id] = 1
        /\ aria.pendingWalkResolve # NoCb
        /\ aria.ariaState = "turning_to_camera"

\* ===================================================================
\* Properties of the request sequencing in main.js (Spec)
\* ===================================================================
\* the workflows that have not returned yet
Running == {i \in DOMAIN wf : wf[i].pc # "done"}

\* Nothing is left that fires by itself: no tween, no timer, no walk in
\* progress, no narration playing, no tour running. Only the user can act.
Quiescent ==
    /\ cam.tweens = {} /\ cam.timers = {}
    /\ ~(cam.isTouring /\ ~cam.isOrbiting)
    /\ aria.timers = {}
    /\ aria.ariaState \in {"idle", "speaking"}
    /\ audio.pending = NoId
    /\ \A i \in DOMAIN wf : wf[i].pc \notin {"t300", "t500"}
    /\ \A j \in DOMAIN backs : ~backs[j].safety
    /\ intro.pcIntro \notin IntroWaits
    /\ intro.pcStart \notin {"hideIntro", "t500"}

\* C1: handleCollectionSelect is never entered while an earlier invocation
\* has not returned: at most one workflow is running, it holds the lock, and
\* a queued request is held back for as long as one is running.
C1_OneWorkflowAtATime ==
    /\ ~ghost.overlap
    /\ Cardinality(Running) <= 1
    /\ Running # {} => orch.collectionRequestLock
    /\ orch.pendingCollectionRequest # NoReq => Running # {}

\* A queued request was started after the first workflow returned.
C1_Witness ==
    /\ Len(wf) >= 2
    /\ ghost.queuedOnFirst >= 1
    /\ wf[1].pc = "done"
    /\ wf[2].pc \in InsideWorkflow

\* three requests A, B, C were accepted, B and C while A's workflow held the lock
Burst == orch.collectionRequestId = 3 /\ ghost.queuedOnFirst = 2

\* C2: after the burst A, B, C, once everything has settled, exactly one
\* workflow reached the reveal and it is the one started for C (the second
\* one started: B's never was); A's returned without revealing, and
\* currentCollection is C.
C2_BurstEndsInLastRequest ==
    (Burst /\ Quiescent) =>
        /\ Len(wf) = 2
        /\ wf[1].pc = "done" /\ ~wf[1].revealed
        /\ wf[2].pc = "done" /\ wf[2].revealed
        /\ orch.currentCollection = ghost.lastRequest.collection

\* C3: a workflow whose request id is no longer the current one drives no UI
\* change, camera call, walk or narration (every such step of a workflow
\* records in ghost.stale whether the workflow was superseded at that point).
C3_SupersededWorkflowOnlyReturns == ~ghost.stale

\* A superseded workflow was resumed and returned without revealing.
C3_Witness ==
    /\ Len(wf) >= 1
    /\ ghost.queuedOnFirst >= 1
    /\ wf[1].pc = "done"
    /\ ~wf[1].revealed

\* C7: no workflow keeps the lock forever: once nothing is left to fire
\* (timers fired, frames rendered, tweens and narration finished) the lock
\* has been released.
C7_LockReleasedWhenSettled == Quiescent => ~orch.collectionRequestLock

\* C8: a queued workflow is started only after the walk of the workflow it
\* supersedes has finished: no workflow is inside handleCollectionSelect
\* while the walk promise of an earlier workflow is still pending.
C8_QueuedStartsAfterWalkFinished ==
    \A i \in DOMAIN wf :
        (wf[i].pc \in InsideWorkflow /\ aria.pendingWalkResolve.id[1] = "wf")
            => aria.pendingWalkResolve.id[2] = i

\* C9: a single pending slot holding the latest request accepted while the
\* lock was held; when the slot is emptied exactly one workflow is started,
\* for the request that was in it.
C9_PendingSlotLastWriteWins ==
    [][ /\ orch'.pendingCollectionRequest # NoReq =>
              orch'.pendingCollectionRequest = ghost'.lastRequest
        /\ Len(wf') <= Len(wf) + 1
        /\ ( orch.pendingCollectionRequest # NoReq
             /\ orch'.pendingCollectionRequest = NoReq ) =>
              /\ Len(wf') = Len(wf) + 1
              /\ wf'[Len(wf')].collection = ghost.lastRequest.collection
              /\ wf'[Len(wf')].source = ghost.lastRequest.source
      ]_vars

\* Two requests were queued behind the first workflow and the second
\* workflow runs for the later of them.
C9_Witness ==
    /\ ghost.queuedOnFirst = 2
    /\ Len(wf) = 2
    /\ wf[2].pc \in InsideWorkflow
    /\ wf[2].collection = ghost.lastRequest.collection
    /\ orch.pendingCollectionRequest = NoReq

\* C10: a cinematic stopped by the user goes on to the framing shot with the
\* 0.9 s duration and the reveal follows that shot; a cinematic cancelled by a
\* superseding request makes the workflow return, with no framing shot and
\* no reveal.
C10_UserStopFramesSwitchReturns ==
    [][ \A i \in DOMAIN wf :
          /\ ( /\ wf[i].pc = "race" /\ ~wf[i].sessCancelled
               /\ wf'[i].sessCancelled
               /\ orch'.collectionRequestId = orch.collectionRequestId ) =>
                  /\ wf'[i].pc = "frame"
                  /\ wf'[i].sessReason = "user"
                  /\ wf'[i].frameDuration = 9
                  /\ cam'.transitionResolve = <<"wf", i, "frame">>
          /\ ( /\ wf[i].pc = "race"
               /\ orch'.collectionRequestId > orch.collectionRequestId ) =>
                  /\ wf'[i].pc = "done"
                  /\ ~wf'[i].revealed
                  /\ cam'.transitionResolve # <<"wf", i, "frame">>
          /\ ( /\ wf[i].pc = "frame" /\ wf'[i].pc = "done"
               /\ orch'.collectionRequestId = orch.collectionRequestId ) =>
                  /\ wf'[i].revealed
                  /\ ui'.productPanel
                  /\ orch'.allowProductOrbit
          /\ (~wf[i].revealed /\ wf'[i].revealed) => wf[i].pc = "frame"
      ]_vars

\* The user stopped a cinematic and its workflow is in the shortened framing shot.
C10_Witness ==
    \E i \in DOMAIN wf :
        /\ wf[i].pc = "frame"
        /\ wf[i].sessCancelled /\ wf[i].sessReason = "user"
        /\ wf[i].frameDuration = 9

\* position of an await of the workflow in the order of its steps
StepRank(pc) ==
    CASE pc = "unstarted" -> 0
      [] pc = "skipWait" -> 1
      [] pc = "t300" -> 2
      [] pc = "t500" -> 3
      [] pc = "walk" -> 4
      [] pc = "pwa" -> 5
      [] pc = "race" -> 6
      [] pc = "frame" -> 7
      [] OTHER -> 8

\* C11: within one workflow the steps happen in the listed order, each after
\* the previous one: the workflow only moves forward through its awaits; when
\* it reaches an await the calls that precede it have been made (UI hidden and
\* narration prepared, walk started, follow enabled, follow disabled and
\* product transition started, narration and cinematic started, framing shot
\* started); it is past the walk only once the walk's signal resolved, in the
\* framing shot only once the race ended, and it reveals only from there.
C11_StepsInOrder ==
    [][ \A i \in DOMAIN wf' :
          LET old == IF i \in DOMAIN wf THEN wf[i].pc ELSE "unstarted"
              new == wf'[i]
          IN  /\ new.pc # old => StepRank(new.pc) > StepRank(old)
              /\ (new.pc = "t300" /\ old # "t300") =>
                    /\ ~ui'.collectionButtons /\ ~ui'.productPanel
                    /\ audio'.prepared = new.collection
                    /\ orch'.currentCollection = new.collection
              /\ (new.pc = "t500" /\ old # "t500") =>
                    aria'.pendingWalkResolve.id = <<"wf", i, "walk">>
              /\ (new.pc = "walk" /\ old # "walk") => cam'.isFollowingARIA
              /\ (new.pc = "pwa" /\ old # "pwa") =>
                    /\ new.walkDone
                    /\ ~cam'.isFollowingARIA
                    /\ cam'.transitionResolve = <<"wf", i, "pwa">>
              /\ (new.pc = "race" /\ old # "race") =>
                    /\ old = "pwa"
                    /\ audio'.pending = <<"wf", i, "audio">>
                    /\ cam'.onTourComplete = <<"wf", i, "tour">>
              /\ (new.pc = "frame" /\ old # "frame") =>
                    /\ old = "race"
                    /\ new.walkDone
                    /\ (new.tourDone /\ new.audioDone) \/ new.sessCancelled
                    /\ cam'.transitionResolve = <<"wf", i, "frame">>
              /\ (new.revealed /\ i \in DOMAIN wf /\ ~wf[i].revealed) =>
                    /\ old = "frame"
                    /\ wf[i].walkDone
                    /\ (wf[i].tourDone /\ wf[i].audioDone) \/ wf[i].sessCancelled
      ]_vars

\* A workflow whose narration and cinematic both finished is in its framing shot.
C11_Witness ==
    \E i \in DOMAIN wf :
        /\ wf[i].pc = "frame"
        /\ wf[i].walkDone /\ wf[i].tourDone /\ wf[i].audioDone
        /\ ~wf[i].sessCancelled

\* the promise of a closing shot started by skipIntro
IsClosingShot(id) == id[1] = "skipbtn" \/ (id[1] = "wf" /\ id[3] = "skipWait")

\* C12: the skip (button or request during the intro) releases the waits of
\* the intro sequence, cancels its transition in flight and starts the one
\* closing shot; afterwards no scripted transition of the sequence is in
\* flight any more, and no closing shot is ever started a second time.
C12_SkipJumpsToClosingShot ==
    [][ /\ (~intro.cancelled /\ intro'.cancelled) =>
              /\ intro'.pcIntro \in {"done", "parked"}
              /\ IsClosingShot(cam'.transitionResolve)
              /\ \A t \in cam'.tweens : t.id = cam'.transitionResolve
              /\ cam'.tweens # {}
              /\ ghost'.closingShots = 1
        /\ intro'.cancelled =>
              /\ intro'.pcIntro \notin IntroWaits \cup IntroTransitions
              /\ cam'.transitionResolve[1] # "intro"
              /\ \A t \in cam'.tweens : t.id[1] # "intro"
        /\ intro.cancelled => ghost'.closingShots = ghost.closingShots
        /\ ghost'.closingShots <= 1
      ]_vars

\* The intro was skipped while one of its scripted transitions was in flight.
C12_Witness ==
    /\ intro.cancelled
    /\ intro.pcIntro = "parked"
    /\ ghost.closingShots = 1
    /\ IsClosingShot(cam.transitionResolve)

\* the mode flags of the controller that are set
ActiveModes(c) ==
    {m \in {"orbiting", "touring", "transitioning", "following"} :
        \/ m = "orbiting" /\ c.isOrbiting
        \/ m = "touring" /\ c.isTouring
        \/ m = "transitioning" /\ c.isTransitioning
        \/ m = "following" /\ c.isFollowingARIA}

\* C13: whatever public operations were called, at most one of the modes
\* orbiting, touring, transitioning and following is active.
C13_AtMostOneMode == Cardinality(ActiveModes(cam)) <= 1

\* C14: a transitionTo called while another transition is in flight resolves
\* the earlier transition's promise (by cancellation), leaves its own promise
\* unresolved by that cancellation, and afterwards exactly one transition is
\* in flight and drives the camera.
C14_SecondTransitionCancelsFirst ==
    [][ ( /\ cam.transitionResolve # NoId
          /\ cam'.transitionResolve # NoId
          /\ cam'.transitionResolve # cam.transitionResolve ) =>
            /\ resolveCount'[cam.transitionResolve] = 1
            /\ resolveCount'[cam'.transitionResolve] = 0
            /\ cam'.isTransitioning
            /\ \A t \in cam'.tweens : t.id = cam'.transitionResolve
      ]_vars

\* C15: enableOrbitMode tears down the tour or transition that is active when
\* it is called (its completion signal is invoked, its tween is gone), and
\* while orbit mode is active no tour and no transition is in flight.
C15_OrbitTearsDownOtherModes ==
    [][ /\ (~cam.isOrbiting /\ cam'.isOrbiting) =>
              /\ cam.onTourComplete # NoId => resolveCount'[cam.onTourComplete] = 1
              /\ cam.transitionResolve # NoId => resolveCount'[cam.transitionResolve] = 1
        /\ cam'.isOrbiting =>
              /\ ~cam'.isTouring
              /\ cam'.transitionResolve = NoId
              /\ cam'.tweens = {}
      ]_vars

\* the controller once the callbacks a call invoked have run
CallbacksRun(c) == [c EXCEPT !.out = << >>]

\* C16: stopTour on an active playTour tour marks the tour inactive and
\* invokes the promise's callback; stopTour again, or with no tour active,
\* changes nothing and invokes nothing; no playTour promise is ever resolved
\* twice, whether by stopTour or by the tour running to its end.
C16_StopTourResolvesOnce ==
    /\ \A id \in TourIds : resolveCount[id] <= 1
    /\ ~cam.isTouring => stopTour(cam) = cam
    /\ (cam.isTouring /\ cam.onTourComplete \in TourIds) =>
          /\ ~stopTour(cam).isTouring
          /\ stopTour(cam).out = << <<"tour", cam.onTourComplete>> >>
          /\ resolveCount[cam.onTourComplete] = 0
          /\ stopTour(CallbacksRun(stopTour(cam))) = CallbacksRun(stopTour(cam))

\* A tour started through playTour is running with its promise pending,
\* after the promise of an earlier playTour was resolved.
C16_Witness ==
    /\ cam.isTouring
    /\ cam.onTourComplete \in TourIds
    /\ cam.tourTime < cam.tourDuration
    /\ \E id \in TourIds : id # cam.onTourComplete /\ resolveCount[id] = 1

\* the promise id was handed out by walkToPosition / has been resolved
WalkRequested(id) == id \in DOMAIN resolveCount
WalkResolved(id) == id \in DOMAIN resolveCount /\ resolveCount[id] >= 1

\* C17: every completion signal returned by walkToPosition is eventually
\* resolved (arrival, superseding walk or safety timeout), also when frames
\* stop being rendered or resetToStart is called while the walk is pending.
C17_EveryWalkEventuallyResolved ==
    \A n \in 1..MaxWalkCalls : \A target \in Places :
        WalkRequested(<<"walk", n, target>>) ~> WalkResolved(<<"walk", n, target>>)

\* the states of a walk in progress
WalkStates == {"turning_to_target", "walking", "turning_to_camera"}

\* the step is the safety timeout of the current walk firing: its timer goes
\* while neither a new walk starts nor the state machine moves
TimeoutFires ==
    /\ aria.pendingWalkTimeout \in aria.timers
    /\ aria.pendingWalkTimeout \notin aria'.timers
    /\ aria'.walkRequestId = aria.walkRequestId
    /\ aria'.ariaState = aria.ariaState

\* C18: the safety timeout of the current walk, firing in TurningToTarget,
\* Walking or TurningToCamera, puts the avatar on the walk target and
\* resolves the walk's signal; firing in Idle or Speaking it changes neither
\* the position nor any signal.
C18_TimeoutSnapsOnlyMidWalk ==
    [][ TimeoutFires =>
            IF aria.ariaState \in WalkStates
            THEN /\ aria'.position = aria.walkEndPos
                 /\ resolveCount[aria.pendingWalkTimeout.id] = 0
                 /\ resolveCount'[aria.pendingWalkTimeout.id] >= 1
            ELSE /\ aria'.position = aria.position
                 /\ resolveCount' = resolveCount
                 /\ aria'.onWalkComplete = aria.onWalkComplete
                 /\ aria'.pendingWalkResolve = aria.pendingWalkResolve
      ]_vars

\* The timeout fired before the avatar had left its starting place: it
\* stands on the target, still turning, and the walk's signal is resolved.
C18_Witness ==
    /\ aria.ariaState = "turning_to_target"
    /\ aria.walkStartPos # aria.walkEndPos
    /\ aria.position = aria.walkEndPos
    /\ aria.timers = {}
    /\ \E id \in WalkIds : id[2] = aria.walkRequestId /\ resolveCount[id] >= 1

\* the step is a frame of the walk's state machine: no new walk starts, the
\* state stays within the walk or moves on to speaking
WalkFrame ==
    /\ aria.ariaState \in WalkStates
    /\ aria'.ariaState \in WalkStates \cup {"speaking"}
    /\ aria'.walkRequestId = aria.walkRequestId
    /\ aria'.timers = aria.timers \/ aria'.ariaState # aria.ariaState

\* C19: a walk that completes through the state machine has its signal fired
\* exactly once, in the update that moves the avatar from TurningToCamera to
\* Speaking and in no earlier frame; if the safety timeout already fired the
\* signal, that update does not fire it again.
C19_SignalFiredOnceOnArrival ==
    [][ WalkFrame =>
            IF aria'.ariaState = "speaking" /\ aria.onWalkComplete # NoCb
            THEN /\ aria.ariaState = "turning_to_camera"
                 /\ resolveCount[aria.onWalkComplete.id] = 0
                 /\ resolveCount'[aria.onWalkComplete.id] = 1
                 /\ \A id \in WalkIds :
                       id # aria.onWalkComplete.id => resolveCount'[id] = resolveCount[id]
                 /\ aria'.onWalkComplete = NoCb
            ELSE resolveCount' = resolveCount
      ]_vars

\* A walk ran to its end through the state machine: the avatar is speaking
\* on the target and the walk's signal was fired once.
C19_Witness ==
    /\ aria.ariaState = "speaking"
    /\ aria.position = aria.walkEndPos
    /\ aria.walkElapsed = aria.walkDuration
    /\ aria.onWalkComplete = NoCb
    /\ \E id \in WalkIds : id[2] = aria.walkRequestId /\ resolveCount[id] = 1

\* the successor of a state in the locomotion cycle
NextWalkState(state) ==
    CASE state = "turning_to_target" -> "walking"
      [] state = "walking" -> "turning_to_camera"
      [] state = "turning_to_camera" -> "speaking"
      [] OTHER -> state

\* C20: the avatar state changes only one step along TurningToTarget ->
\* Walking -> TurningToCamera -> Speaking (updateARIA), to TurningToTarget
\* (walkToPosition) or to Idle (resetToStart); updateARIA leaves the state
\* alone when it is Idle or Speaking, and moves it at most one step otherwise.
C20_StateChangesOnlyAlongCycle ==
    [][ /\ aria'.ariaState # aria.ariaState =>
              \/ /\ aria.ariaState \in WalkStates
                 /\ aria'.ariaState = NextWalkState(aria.ariaState)
                 /\ aria'.walkRequestId = aria.walkRequestId
              \/ /\ aria'.ariaState = "turning_to_target"
                 /\ aria'.walkRequestId = aria.walkRequestId + 1
              \/ /\ aria'.ariaState = "idle"
                 /\ aria'.position = "start"
                 /\ aria'.walkRequestId = aria.walkRequestId
        /\ \A finished \in BOOLEAN :
              updateARIA(aria, finished).ariaState \in
                  IF aria.ariaState \in {"idle", "speaking"}
                  THEN {aria.ariaState}
                  ELSE {aria.ariaState, NextWalkState(aria.ariaState)}
      ]_vars

\* resetToStart sent the avatar back to Idle while its walk was pending:
\* the frames that follow must not take the walk up again.
C20_Witness ==
    /\ aria.ariaState = "idle"
    /\ aria.pendingWalkResolve # NoCb
    /\ aria.onWalkComplete # NoCb
    /\ aria.walkElapsed > 0

\* ===================================================================
\* Functions studied on their own (SpecCalc)
\* ===================================================================

\* updateWalking(elapsed, delta) without the clamp of walkProgress
updateWalkingFrame_Unclamped(s, delta) ==
    LET elapsed == s.walkElapsed + delta
    IN  IF elapsed >= s.walkDuration
        THEN [s EXCEPT !.walkElapsed = elapsed,
                       !.walkProgress = elapsed,
                       !.position = s.walkEndPos,
                       !.height = "zero",
                       !.lean = "zero",
                       !.ariaState = "turning_to_camera"]
        ELSE [s EXCEPT !.walkElapsed = elapsed,
                       !.walkProgress = elapsed,
                       !.position = IF s.walkStartPos = s.walkEndPos
                                    THEN s.walkEndPos ELSE "between",
                       !.height = "bob",
                       !.lean = "stride"]

\* updateWalking(elapsed, delta) in full: walkProgress is kept as the
\* numerator of min(1, walkElapsed / walkDuration) over walkDuration, height
\* is position.y and lean stands for rotation.x and rotation.z.
updateWalkingFrame(s, delta) ==
    LET elapsed == s.walkElapsed + delta
        progress == IF elapsed >= s.walkDuration THEN s.walkDuration ELSE elapsed
    IN  IF progress >= s.walkDuration
        THEN [s EXCEPT !.walkElapsed = elapsed,
                       !.walkProgress = s.walkDuration,
                       !.position = s.walkEndPos,
                       !.height = "zero",
                       !.lean = "zero",
                       !.ariaState = "turning_to_camera"]
        ELSE [s EXCEPT !.walkElapsed = elapsed,
                       !.walkProgress = progress,
                       !.position = IF s.walkStartPos = s.walkEndPos
                                    THEN s.walkEndPos ELSE "between",
                       !.height = "bob",
                       !.lean = "stride"]

\* the avatar as updateTurningToTarget leaves it when it sets 'walking'
WalkingInputs ==
    { [ fn |-> "updateWalking", ariaState |-> "walking",
        walkElapsed |-> 0, walkProgress |-> 0, walkDuration |-> d,
        walkStartPos |-> from, walkEndPos |-> to, position |-> from,
        height |-> h, lean |-> l ] :
        d \in 1..MaxWalkFrames, from \in Places, to \in Places,
        h \in {"zero", "bob"}, l \in {"zero", "stride"} }

\* the difference of two angles taken as it is
wrapAngle_None(diff) == diff

\* while (diff > Math.PI) diff -= 2 PI; while (diff < -Math.PI) diff += 2 PI
RECURSIVE wrapAngle(_)
wrapAngle(diff) ==
    IF diff > Pi THEN wrapAngle(diff - TwoPi)
    ELSE IF diff < -Pi THEN wrapAngle(diff + TwoPi)
    ELSE diff

\* 1.0 - Math.exp(-turnSpeed * dt * 2.0) with turnSpeed = 2.4, in 1/10000
turnFactor(dt) ==
    CASE dt = 4 -> 190 [] dt = 16 -> 739 [] dt = 50 -> 2134

\* dampRotation with a minimum step of 1.0 * dt instead of 0.1 * dt
dampRotation_BigMinStep(current, target, dt) ==
    LET diff == wrapAngle(target - current)
        size == IF diff < 0 THEN -diff ELSE diff
        eased == (size * turnFactor(dt) + 9999) \div 10000
        minSpeed == 10 * dt
        step == IF eased < minSpeed /\ size > ANGLE_TOLERANCE THEN minSpeed ELSE eased
    IN  IF size < ANGLE_TOLERANCE
        THEN [value |-> target, finished |-> TRUE]
        ELSE [value |-> IF diff < 0 THEN current - step ELSE current + step,
              finished |-> FALSE]

\* dampRotation(current, target, turnSpeed, dt). The eased step diff * factor
\* is a real of the sign of diff and smaller in size; on the grid it is
\* rounded away from zero, so that it is never zero for a nonzero diff.
\* minSpeed = 0.1 * dt is dt itself in these units.
dampRotation(current, target, dt) ==
    LET diff == wrapAngle(target - current)
        size == IF diff < 0 THEN -diff ELSE diff
        eased == (size * turnFactor(dt) + 9999) \div 10000
        minSpeed == dt
        step == IF eased < minSpeed /\ size > ANGLE_TOLERANCE THEN minSpeed ELSE eased
    IN  IF size < ANGLE_TOLERANCE
        THEN [value |-> target, finished |-> TRUE]
        ELSE [value |-> IF diff < 0 THEN current - step ELSE current + step,
              finished |-> FALSE]

\* updateTurningToTarget(delta), with the yaw it turns
updateTurningFrame(s, dt) ==
    [s EXCEPT !.rotationY = dampRotation(s.rotationY, s.targetRotation, dt).value,
              !.ariaState = IF dampRotation(s.rotationY, s.targetRotation, dt).finished
                            THEN "walking" ELSE @]

\* the avatar as walkToPosition leaves it: any yaw, any bearing of the target
TurningInputs ==
    { [ fn |-> "dampRotation", ariaState |-> "turning_to_target",
        rotationY |-> y * (Pi \div MaxYawSteps),
        targetRotation |-> t * (Pi \div MaxYawSteps) ] :
        y \in -MaxYawSteps..MaxYawSteps, t \in -MaxYawSteps..MaxYawSteps }

\* voice-assistant.js before any utterance; Date.now() is far from 0
VoiceInit ==
    [ fn |-> "dispatchCollection", now |-> VoiceDebounce,
      lastCommandAt |-> 0, lastCommandCollection |-> "null",
      dispatchedAt |-> [c \in VALID_COLLECTIONS |-> -1],
      lastGap |-> VoiceDebounce ]

\* dispatchCollection(collection) at time now; dispatchedAt and lastGap
\* record the aria:collectionSelect events it sends: when each collection
\* was last sent, and how long before this event the same one was sent.
dispatchCollection(v, collection, now) ==
    IF collection = "null" THEN [v EXCEPT !.now = now]
    ELSE IF collection = v.lastCommandCollection /\ now - v.lastCommandAt < VoiceDebounce
    THEN [v EXCEPT !.now = now]
    ELSE [v EXCEPT !.now = now,
                   !.lastCommandCollection = collection,
                   !.lastCommandAt = now,
                   !.lastGap = IF v.dispatchedAt[collection] < 0 THEN VoiceDebounce
                               ELSE now - v.dispatchedAt[collection],
                   !.dispatchedAt[collection] = now]

\* playProductCinematic(collectionName, {segments}): the points it hands to
\* playTour. A point is the camera's own position or the point of the orbit
\* at startAngle + 2 PI * step / segments, where startAngle is the bearing
\* of the camera from the target; a look point is made from each path point
\* and its index.
productCinematicPath(s) ==
    LET orbit == [i \in 1..(s.segments + 1) |->
                     [at |-> "orbit", bearing |-> s.startAngle, step |-> i - 1]]
        path == << [at |-> "camera", bearing |-> s.startAngle, step |-> 0] >> \o orbit
    IN  [s EXCEPT !.pathPoints = path,
                  !.lookPoints = [idx \in DOMAIN path |-> [of |-> path[idx], idx |-> idx - 1]]]

\* a product cinematic is asked for: segments wanted, bearing of the camera
CinematicInputs ==
    { [ fn |-> "playProductCinematic", segments |-> n,
        startAngle |-> b * (Pi \div MaxYawSteps),
        pathPoints |-> << >>, lookPoints |-> << >> ] :
        n \in 1..MaxSegments, b \in -MaxYawSteps..MaxYawSteps }

\* the variables of the running program, which a function studied on its
\* own leaves alone
programVars == <<cam, aria, resolveCount, camCalls, walkCalls,
                 audio, orch, wf, intro, backs, ui, ghost>>

CalcInit ==
    /\ calc \in WalkingInputs \cup TurningInputs \cup {VoiceInit} \cup CinematicInputs
    /\ cam = CameraInit(TRUE)
    /\ aria = AriaInit(TRUE)
    /\ audio = AudioInit
    /\ orch = OrchInit
    /\ wf = << >>
    /\ intro = IntroInit
    /\ backs = << >>
    /\ ui = UIInit
    /\ ghost = GhostInit
    /\ resolveCount = << >>
    /\ camCalls = 0
    /\ walkCalls = 0

\* one frame of updateARIA in the 'walking' state
CalcUpdateWalking ==
    /\ calc.fn = "updateWalking"
    /\ calc.ariaState = "walking"
    /\ \E delta \in 1..MaxDelta : calc' = updateWalkingFrame(calc, delta)
    /\ UNCHANGED programVars

\* one frame of updateARIA in the 'turning_to_target' state
CalcUpdateTurning ==
    /\ calc.fn = "dampRotation"
    /\ calc.ariaState = "turning_to_target"
    /\ \E dt \in TurnDeltas : calc' = updateTurningFrame(calc, dt)
    /\ UNCHANGED programVars

\* onMessage(message) of a user utterance, some time after the last one;
\* detectCollection finds one of the collections in it or none
CalcVoiceMessage ==
    /\ calc.fn = "dispatchCollection"
    /\ \E now \in calc.now..MaxVoiceClock, collection \in VALID_COLLECTIONS \cup {"null"} :
          calc' = dispatchCollection(calc, collection, now)
    /\ UNCHANGED programVars

\* playProductCinematic builds the shot
CalcPlayProductCinematic ==
    /\ calc.fn = "playProductCinematic"
    /\ calc.pathPoints = << >>
    /\ calc' = productCinematicPath(calc)
    /\ UNCHANGED programVars

CalcNext ==
    \/ CalcUpdateWalking
    \/ CalcUpdateTurning
    \/ CalcVoiceMessage
    \/ CalcPlayProductCinematic

SpecCalc == CalcInit /\ [][CalcNext]_vars

\* the same while frames keep being rendered
SpecCalcLive == CalcInit /\ [][CalcNext]_vars /\ WF_vars(CalcUpdateTurning)

\* C21: in the Walking state the progress elapsed/duration stays within
\* [0,1]; the update in which it reaches 1 puts the avatar exactly on the
\* walk target with y = 0, zeroes pitch and roll and sets TurningToCamera;
\* while it is below 1 the state stays Walking.
C21_WalkingArrivesExactly ==
    [][ (calc.fn = "updateWalking" /\ calc.ariaState = "walking") =>
            /\ calc'.walkProgress \in 0..calc.walkDuration
            /\ IF calc'.walkElapsed >= calc.walkDuration
               THEN /\ calc'.walkProgress = calc.walkDuration
                    /\ calc'.position = calc.walkEndPos
                    /\ calc'.height = "zero"
                    /\ calc'.lean = "zero"
                    /\ calc'.ariaState = "turning_to_camera"
               ELSE /\ calc'.walkProgress < calc.walkDuration
                    /\ calc'.ariaState = "walking"
      ]_vars

\* A walk whose last frame overshot its duration: the avatar stands on the
\* target, upright, turning to the camera.
C21_Witness ==
    /\ calc.fn = "updateWalking"
    /\ calc.ariaState = "turning_to_camera"
    /\ calc.walkElapsed > calc.walkDuration
    /\ calc.walkStartPos # calc.walkEndPos
    /\ calc.position = calc.walkEndPos

\* C22: from TurningToTarget, whatever the yaw and the bearing of the
\* target, finitely many frames bring the yaw within the tolerance and the
\* state to Walking; every frame before that shortens the angle left to
\* turn, so the turn neither creeps for ever nor swings around the target.
C22_TurnArrivesInFiniteFrames ==
    /\ (calc.fn = "dampRotation") ~>
            (calc.fn = "dampRotation" /\ calc.ariaState = "walking")
    /\ [][ (calc.fn = "dampRotation" /\ calc.ariaState = "turning_to_target") =>
              \/ calc'.ariaState = "walking" /\ calc'.rotationY = calc.targetRotation
              \/ LET left == wrapAngle(calc.targetRotation - calc.rotationY)
                     leftAfter == wrapAngle(calc'.targetRotation - calc'.rotationY)
                 IN  /\ calc'.ariaState = "turning_to_target"
                     /\ leftAfter * leftAfter < left * left
         ]_vars

\* A turn has arrived: the avatar looks along the bearing and walks.
C22_Witness ==
    /\ calc.fn = "dampRotation"
    /\ calc.ariaState = "walking"
    /\ calc.rotationY = calc.targetRotation

\* C23: once the wrapped difference between target and current is below the
\* tolerance, dampRotation reports finished and returns the target, and fed
\* with its own result it reports finished and returns the same value again,
\* whatever the delta.
C23_DampRotationFixedPoint ==
    calc.fn = "dampRotation" =>
        LET turn == (calc.targetRotation - calc.rotationY) % TwoPi
            left == IF turn > Pi THEN TwoPi - turn ELSE turn
        IN  left < ANGLE_TOLERANCE =>
                \A dt \in TurnDeltas :
                    /\ dampRotation(calc.rotationY, calc.targetRotation, dt) =
                           [value |-> calc.targetRotation, finished |-> TRUE]
                    /\ \A again \in TurnDeltas :
                           dampRotation(calc.targetRotation, calc.targetRotation, again) =
                               [value |-> calc.targetRotation, finished |-> TRUE]

\* The yaw has come within the tolerance of the bearing without being on it.
C23_Witness ==
    /\ calc.fn = "dampRotation"
    /\ calc.ariaState = "turning_to_target"
    /\ calc.rotationY # calc.targetRotation
    /\ wrapAngle(calc.targetRotation - calc.rotationY) \in
           (1 - ANGLE_TOLERANCE)..(ANGLE_TOLERANCE - 1)

\* C24: with the avatar asset missing, every walk (to a product or to the
\* start) has its signal resolved by the call itself, and neither the walks
\* nor updateARIA, resetToStart or anything else changes the avatar state or
\* arms a timer.
C24_MissingAvatarNeverHangs ==
    ~aria.loaded =>
        /\ aria = AriaInit(FALSE)
        /\ \A id \in WalkIds : resolveCount[id] = 1

\* Walks to a product and back to the start were asked of a missing avatar.
C24_Witness ==
    /\ ~aria.loaded
    /\ \E n \in 1..MaxWalkCalls, m \in 1..MaxWalkCalls, p \in Places \ {"start"} :
          /\ <<"walk", n, p>> \in WalkIds
          /\ <<"walk", m, "start">> \in WalkIds

\* C26: two voice-originated selection events for the same collection are
\* never dispatched less than 2.5 seconds apart.
C26_SameCollectionDebounced ==
    calc.fn = "dispatchCollection" => calc.lastGap >= VoiceDebounce

\* C27: the shot built for a product cinematic has exactly segments + 1
\* position points, the k-th of them on the orbit at the camera's bearing
\* plus k / segments of a full turn, and as many look points.
C27_OrbitShotHasSegmentsPlusOnePoints ==
    (calc.fn = "playProductCinematic" /\ calc.pathPoints # << >>) =>
        /\ Len(calc.pathPoints) = calc.segments + 1
        /\ Len(calc.lookPoints) = Len(calc.pathPoints)
        /\ \A k \in DOMAIN calc.pathPoints :
              calc.pathPoints[k] =
                  [at |-> "orbit", bearing |-> calc.startAngle, step |-> k - 1]

\* C28: collectionRequestId never decreases and counts the accepted
\* requestCollection calls (those that start a workflow and those that are
\* queued), a rejected call leaving it alone; the id a running workflow
\* captured equals the counter exactly when no request was accepted since
\* that workflow started, that is when it is the latest workflow and nothing
\* is queued behind it.
C28_RequestIdCountsAcceptedCalls ==
    [][ /\ orch'.collectionRequestId >= orch.collectionRequestId
        /\ orch'.collectionRequestId - orch.collectionRequestId =
               ghost'.accepted - ghost.accepted
        /\ (ghost'.accepted = ghost.accepted /\ Len(wf') = Len(wf)) =>
               orch'.collectionRequestId = orch.collectionRequestId
        /\ \A i \in DOMAIN wf' :
              wf'[i].pc # "done" =>
                  ( wf'[i].requestId = orch'.collectionRequestId
                      <=> (i = Len(wf') /\ orch'.pendingCollectionRequest = NoReq) )
      ]_vars

\* A workflow is running whose captured id has fallen behind the counter by
\* the two requests queued behind it.
C28_Witness ==
    \E i \in DOMAIN wf :
        /\ wf[i].pc \notin {"done", "return"}
        /\ orch.collectionRequestId = wf[i].requestId + 2
        /\ orch.pendingCollectionRequest # NoReq

\* C29: a non-looping tour ends by itself in the first update() whose clock
\* reaches the tour duration: that update marks the tour inactive and invokes
\* the completion callback exactly once (and forgets it); every earlier update
\* keeps the tour active with the sampled parameter within [0, duration] and
\* invokes nothing.  An update() of a looping tour wraps the parameter below
\* the duration, leaves the tour active and invokes nothing, and a looping
\* tour never holds a completion callback.  Stated by applying update() to
\* every reachable state of the camera in which a tour is running.
C29_TourEndsWhenClockReachesDuration ==
    (cam.isTouring /\ ~cam.isOrbiting) =>
        LET c == update([cam EXCEPT !.out = << >>], 1)
            reached == cam.tourTime + 1 >= cam.tourDuration
        IN  IF cam.tourLoop
            THEN /\ cam.onTourComplete = NoId
                 /\ c.isTouring
                 /\ c.tourTime = (cam.tourTime + 1) % cam.tourDuration
                 /\ c.tourTime >= 0 /\ c.tourTime < c.tourDuration
                 /\ c.onTourComplete = NoId
                 /\ c.out = << >>
            ELSE IF reached
            THEN /\ ~c.isTouring
                 /\ c.onTourComplete = NoId
                 /\ c.tourTime = c.tourDuration
                 /\ c.out = IF cam.onTourComplete # NoId
                            THEN << <<"tour", cam.onTourComplete>> >>
                            ELSE << >>
            ELSE /\ c.isTouring
                 /\ c.tourTime >= 0 /\ c.tourTime <= c.tourDuration
                 /\ c.onTourComplete = cam.onTourComplete
                 /\ c.out = << >>

\* a playTour of two ticks after its first update: still running, callback held
C29_Witness ==
    /\ cam.isTouring /\ ~cam.isOrbiting /\ ~cam.tourLoop
    /\ cam.tourDuration = 2 /\ cam.tourTime = 1
    /\ cam.onTourComplete # NoId

\* C30: while collectionRequestLock is held by a workflow that has passed
\* its hide-UI step (it is at one of the awaits after hideCollectionButtons),
\* the collection buttons are not visible: no other coroutine has shown them
\* again.
C30_ButtonsStayHiddenDuringWorkflow ==
    (/\ orch.collectionRequestLock
     /\ \E i \in DOMAIN wf :
            wf[i].pc \in {"t300", "t500", "walk", "pwa", "race", "frame"})
        => ~ui.collectionButtons

\* ===================================================================
\* The orchestrator without a camera controller
\* ===================================================================
\* main.js with the module variable cameraController left undefined: the
\* missing optional component its existence checks are written for.  The
\* camera record stays in its constructed state and nothing reads it.  Only
\* the handlers that can run in this configuration are steps: the product
\* panel is never revealed, so handleBack and the product click have no
\* enabled state, and no tween, camera timer or intro wait is ever started.
InitNoCamera ==
    /\ cam = CameraInit(TRUE)
    /\ aria = AriaInit(TRUE)
    /\ audio = AudioInit
    /\ orch = [OrchInit EXCEPT !.cameraController = FALSE]
    /\ wf = << >>
    /\ intro = IntroInit
    /\ backs = << >>
    /\ ui = UIInit
    /\ ghost = GhostInit
    /\ calc = NoCalc
    /\ resolveCount = << >>
    /\ camCalls = 0
    /\ walkCalls = 0

NextNoCamera ==
    \/ RequestCollection
    \/ StartExperience
    \/ HideIntroDone
    \/ SkipIntroClick
    \/ Animate
    \/ WalkTimeout
    \/ AudioEnded
    \/ WorkflowTimer
    \/ StartTailTimer

SpecNoCamera == InitNoCamera /\ [][NextNoCamera]_vars

EarlyCollectionEvent ==
    /\ ~ui.overlay
    /\ orch.collectionRequestId < MaxRequests
    /\ \E c \in {" Luxury ", "Minimal"} :
          Becomes(requestCollection(World,
                     [form |-> "object", collection |-> c, source |-> "voice"], "ui"))

\* the steps that follow by themselves, the Start click, the early event and
\* the requests made once the overlay is shown; other user input is left to
\* Spec
NextEarly ==
    \/ EarlyCollectionEvent
    \/ RequestCollection
    \/ StartExperience
    \/ HideIntroDone
    \/ Animate
    \/ TweenComplete
    \/ WalkTimeout
    \/ AudioEnded
    \/ WorkflowTimer
    \/ IntroWaitTimer
    \/ StartTailTimer

SpecEarly == Init /\ [][NextEarly]_vars

\* C31: the intro sequence and a collection workflow never drive the camera
\* concurrently: across a step during which some workflow stays inside
\* handleCollectionSelect (it has entered and has not ended), playIntroSequence
\* starts no camera transition, whenever the request arrived relative to
\* startExperience.
C31_IntroNeverDrivesCameraDuringWorkflow ==
    [][ (\E i \in DOMAIN wf :
            /\ wf[i].pc \in {"t300", "t500", "walk", "pwa", "race", "frame"}
            /\ wf'[i].pc \in {"t300", "t500", "walk", "pwa", "race", "frame"})
        => ~(intro'.pcIntro \in IntroTransitions /\ intro'.pcIntro # intro.pcIntro) ]_vars

\* C32: follow mode enabled by a workflow is disabled again before that
\* workflow ends, also when it is superseded while it waits for the walk: in
\* the state reached by a step in which a workflow returns, isFollowingARIA
\* is false.
C32_FollowOffWhenWorkflowReturns ==
    [][ \A i \in DOMAIN wf :
            (wf[i].pc # "done" /\ wf'[i].pc = "done") => ~cam'.isFollowingARIA ]_vars

\* C33: once the completion signal of the latest walk has resolved (by
\* arrival or by the safety timeout, not by a superseding walk) and the
\* avatar stands on the walk target, an updateARIA call leaves its horizontal
\* position on the walk target; in particular after the safety timeout fired
\* while the avatar was still walking.  Stated by applying updateARIA to
\* every reachable state of the walk controller.
C33_PositionStaysOnTargetAfterSignal ==
    (/\ aria.loaded
     /\ aria.position = aria.walkEndPos
     /\ \E id \in DOMAIN resolveCount :
            id[1] = "walk" /\ id[2] = walkCalls /\ resolveCount[id] >= 1)
        => \A finished \in BOOLEAN :
               updateARIA(aria, finished).position = aria.walkEndPos

\* C34: product orbit is allowed only when no workflow is active: in every
\* reachable state allowProductOrbit implies that collectionRequestLock is
\* not held (also during a workflow's intro-skip wait).
C34_OrbitAllowedOnlyWhenUnlocked ==
    orch.allowProductOrbit => ~orch.collectionRequestLock

\* C35: a workflow that resumes from its narration+cinematic race while it is
\* still the active request never finds its session cancelled with reason
\* 'switch' (ghost.switchReturn records that branch being taken);
\* equivalently, a session receives the reason 'switch' only during its race
\* and only in a step after which its workflow's captured requestId is below
\* the current one, and that workflow has returned by the end of the step.
C35_SwitchOnlyForSupersededWorkflow ==
    /\ [](~ghost.switchReturn)
    /\ [][ \A i \in DOMAIN wf :
              (wf[i].sessReason # "switch" /\ wf'[i].sessReason = "switch")
                  => /\ wf[i].pc = "race"
                     /\ wf[i].requestId < orch'.collectionRequestId
                     /\ wf'[i].pc = "done" ]_vars

\* a workflow whose cinematic was cut short by a newer request
C35_Witness ==
    \E i \in DOMAIN wf :
        /\ wf[i].pc = "done" /\ wf[i].sessCancelled /\ wf[i].sessReason = "switch"
        /\ Len(wf) > i

\* C36: cancelActiveCinematic is idempotent per session.  Applied to any
\* reachable state: with no session, or with a session already cancelled, it
\* changes nothing whatever the reason; on a live session it sets cancelled,
\* records the reason, stops narration and tour, hides subtitle and stop
\* button and makes the racing workflow runnable exactly once; and a second
\* call with any reason changes nothing more, so the reason stays the first.
C36_CancelCinematicIdempotent ==
    \A r1, r2 \in {"user", "switch"} :
        LET k == orch.cinematicState
            w1 == cancelActiveCinematic(World, r1)
        IN  /\ cancelActiveCinematic(w1, r2) = w1
            /\ IF k = 0 THEN w1 = World
               ELSE IF wf[k].sessCancelled THEN w1 = World
               ELSE /\ w1.wf[k].sessCancelled
                    /\ w1.wf[k].sessReason = r1
                    /\ w1.audio.pending = NoId
                    /\ ~w1.cam.isTouring
                    /\ ~w1.ui.subtitle /\ ~w1.ui.stopCinematic
                    /\ wf[k].pc = "race"
                    /\ Cardinality({n \in DOMAIN w1.q : w1.q[n] = <<"wf", k>>}) = 1

\* a cancelled session is still installed while a newer workflow runs
C36_Witness ==
    /\ orch.cinematicState # 0
    /\ wf[orch.cinematicState].sessCancelled
    /\ wf[orch.cinematicState].sessReason = "switch"
    /\ Len(wf) > orch.cinematicState

\* C37: a requestCollection call whose collection, trimmed and lower-cased,
\* is none of elegance, minimal, luxury leaves the whole orchestrator state
\* unchanged (lock, request id, pending slot, cinematic session, camera,
\* avatar, narration, UI) and makes nothing runnable, whether or not a
\* workflow is active.  Stated by applying requestCollection to every
\* reachable state.
C37_InvalidRequestChangesNothing ==
    \A input \in { [form |-> "object", collection |-> "sofa", source |-> "voice"],
                   [form |-> "object", collection |-> "", source |-> "ui"],
                   [form |-> "string", collection |-> "sofa", source |-> ""],
                   [form |-> "string", collection |-> "", source |-> ""] } :
        requestCollection(World, input, "ui") = World

\* a workflow is in its cinematic, holding the lock, the tour running
C37_Witness ==
    /\ orch.collectionRequestLock
    /\ orch.cinematicState # 0
    /\ wf[orch.cinematicState].pc = "race"
    /\ cam.isTouring

\* ===================================================================
\* The audio system alone (SpecAudio)
\* ===================================================================
\* resolveCount counts the resolutions of every promise playMoment returned.
AudioStep(au, newIds) ==
    /\ audio' = [au EXCEPT !.out = << >>]
    /\ UNCHANGED <<cam, aria, camCalls, walkCalls, orch, wf, intro, backs, ui,
                   ghost, calc>>
    /\ resolveCount' = Counted([id \in DOMAIN resolveCount \cup newIds |->
                                   IF id \in DOMAIN resolveCount
                                   THEN resolveCount[id] ELSE 0], au.out)

AudioPlayMoment ==
    /\ Cardinality(DOMAIN resolveCount) < MaxPlays
    /\ \E key \in {"apertura", "elegance"} :
          LET id == <<"audio", Cardinality(DOMAIN resolveCount) + 1, key>>
          IN  AudioStep(playMoment(audio, id, key), {id})

AudioPrepareMoment ==
    \E key \in {"apertura", "elegance"} : AudioStep(prepareMoment(audio, key), {})

AudioStop == AudioStep(audioStop(audio), {})

\* the track that is playing ends, or fails
AudioTrackEnded ==
    /\ audio.pending # NoId
    /\ AudioStep(audioEnded(audio), {})

AudioNext ==
    \/ AudioPlayMoment
    \/ AudioPrepareMoment
    \/ AudioStop
    \/ AudioTrackEnded

SpecAudio == Init /\ [][AudioNext]_vars

\* The audio system when a track that is playing always ends or fails in the
\* end; calls may stop at any time.
SpecAudioLive == Init /\ [][AudioNext]_vars /\ WF_vars(AudioTrackEnded)

\* C38: every promise returned by playMoment is eventually resolved, also
\* when its playback is interrupted by stop() or replaced by another
\* playMoment; and a resolution is always that of the playback that is
\* current, once per promise (a finished or stopped playback resolves
\* nothing later and does not clear the speaking flag of a later one).
C38_EveryPlaybackEventuallyResolved ==
    /\ \A n \in 1..MaxPlays : \A key \in {"apertura", "elegance"} :
          (<<"audio", n, key>> \in DOMAIN resolveCount)
              ~> (/\ <<"audio", n, key>> \in DOMAIN resolveCount
                  /\ resolveCount[<<"audio", n, key>>] >= 1)
    /\ [][ \A id \in DOMAIN resolveCount :
              resolveCount'[id] > resolveCount[id]
                  => /\ id = audio.pending
                     /\ resolveCount[id] = 0
                     /\ ~audio'.speaking ]_vars

\* ===================================================================
\* The look target of the camera controller (SpecOrbit)
\* ===================================================================
\* Points the camera can look at: the start look-at (0, 1, 0), the avatar,
\* a point of a look curve, the focus position of a product, and "origin",
\* the (0, 0, 0) that OrbitControls.target and orbitTarget hold after
\* construction.
LookPoints == {"start", "aria", "curve"} \cup VALID_COLLECTIONS

\* constructor: the mode flags with currentTarget, controls.enabled,
\* controls.target and orbitTarget
OrbitInitState ==
    [ fn |-> "orbit",
      isOrbiting |-> FALSE,
      isFollowingARIA |-> FALSE,
      isTransitioning |-> FALSE,
      controlsEnabled |-> FALSE,
      currentTarget |-> "start",
      controlsTarget |-> "origin",
      orbitTarget |-> "origin" ]

\* enableOrbitMode(targetPosition, options) with the aim of the controls
enableOrbitModeAim(s, targetPosition) ==
    [enableOrbitMode(s) EXCEPT !.controlsEnabled = TRUE,
                               !.orbitTarget = targetPosition,
                               !.controlsTarget = targetPosition]

\* disableOrbitMode() with the look target it copies from the controls
disableOrbitModeAim(s) ==
    [disableOrbitMode(s) EXCEPT !.controlsEnabled = FALSE,
                                !.currentTarget = s.controlsTarget]

OrbitInit ==
    /\ calc = OrbitInitState
    /\ cam = CameraInit(TRUE)
    /\ aria = AriaInit(TRUE)
    /\ audio = AudioInit
    /\ orch = OrchInit
    /\ wf = << >>
    /\ intro = IntroInit
    /\ backs = << >>
    /\ ui = UIInit
    /\ ghost = GhostInit
    /\ resolveCount = << >>
    /\ camCalls = 0
    /\ walkCalls = 0

\* onMouseClick on the product of the current collection
OrbitEnable ==
    /\ ~calc.isOrbiting
    /\ \E collection \in VALID_COLLECTIONS :
          calc' = enableOrbitModeAim(calc, collection)
    /\ UNCHANGED programVars

\* requestCollection, handleCollectionSelect and handleBack call
\* disableOrbitMode() whatever the mode is
OrbitDisable ==
    /\ calc' = disableOrbitModeAim(calc)
    /\ UNCHANGED programVars

\* followARIA(active)
OrbitFollowARIA ==
    /\ \E active \in BOOLEAN : calc' = followARIA(calc, active)
    /\ UNCHANGED programVars

\* transitionTo(...) up to the creation of the tween
OrbitTransitionTo ==
    /\ calc' = [(IF calc.isOrbiting THEN disableOrbitModeAim(calc) ELSE calc)
                   EXCEPT !.isTransitioning = TRUE, !.isFollowingARIA = FALSE]
    /\ UNCHANGED programVars

\* onUpdate of the transition tween, or update(delta) while following
OrbitLookFrame ==
    /\ ~calc.isOrbiting
    /\ \/ /\ calc.isTransitioning
          /\ \E p \in LookPoints : calc' = [calc EXCEPT !.currentTarget = p]
       \/ /\ calc.isFollowingARIA /\ ~calc.isTransitioning
          /\ calc' = [calc EXCEPT !.currentTarget = "aria"]
    /\ UNCHANGED programVars

\* finish() of the transition
OrbitTransitionFinish ==
    /\ calc.isTransitioning
    /\ calc' = [calc EXCEPT !.isTransitioning = FALSE]
    /\ UNCHANGED programVars

OrbitNext ==
    \/ OrbitEnable
    \/ OrbitDisable
    \/ OrbitFollowARIA
    \/ OrbitTransitionTo
    \/ OrbitLookFrame
    \/ OrbitTransitionFinish

SpecOrbit == OrbitInit /\ [][OrbitNext]_vars

\* C39: disableOrbitMode called while orbit mode is not active leaves the
\* state of the camera controller unchanged, the current look target
\* included; the look target becomes the aim of the orbit only when orbit
\* mode was active.
C39_DisableOrbitModeIdleChangesNothing ==
    ~calc.isOrbiting => disableOrbitModeAim(calc) = calc

\* ===================================================================
\* The voice assistant's conversation (SpecVoice)
\* ===================================================================
\* conversation is 0 for null, else the number of the session it holds;
\* sessions are the sessions of the client library that are open; pc is
\* the transport of the tryStart that startConversation waits in ("idle":
\* none) and stage the await tryStart is at; clientLoaded is Conversation
\* # null; starts counts the tryStart calls.
VoiceStartInit ==
    [ fn |-> "voice",
      conversation |-> 0,
      connecting |-> FALSE,
      clientLoaded |-> FALSE,
      outputVolume |-> 1,
      state |-> "offline",
      pc |-> "idle",
      stage |-> "",
      sessions |-> {},
      starts |-> 0 ]

\* setState(state); the toggle button is disabled while state is "connecting"
setState(v, state) == [v EXCEPT !.state = state]

\* tryStart(transport) up to its first await, of loadClient()
tryStart(v, transport) ==
    [setState([v EXCEPT !.connecting = TRUE], "connecting")
        EXCEPT !.pc = transport, !.stage = "load", !.starts = @ + 1]

\* startConversation() up to its first await
startConversation(v) ==
    IF v.conversation # 0 \/ v.connecting THEN v ELSE tryStart(v, "webrtc")

\* stopConversation(); endSession() closes the session
stopConversation(v) ==
    IF v.conversation = 0 THEN v
    ELSE setState([v EXCEPT !.sessions = @ \ {v.conversation},
                            !.conversation = 0,
                            !.connecting = FALSE], "offline")

\* the click listener of the toggle button
toggleClick(v) ==
    IF v.conversation # 0 THEN stopConversation(v) ELSE startConversation(v)

\* Client.startSession resolves: onConnect runs, then startConversation
\* stores the session
startSucceeded(v) ==
    [setState([v EXCEPT !.connecting = FALSE], "listening")
        EXCEPT !.sessions = @ \cup {v.starts},
               !.conversation = v.starts,
               !.pc = "idle",
               !.stage = ""]

\* the await tryStart is at resolves: loadClient(), then getUserMedia (webrtc
\* only), then Client.startSession
tryStartResumed(v) ==
    CASE v.stage = "load" ->
             [v EXCEPT !.clientLoaded = TRUE,
                       !.stage = IF v.pc = "webrtc" THEN "media" ELSE "session"]
      [] v.stage = "media" -> [v EXCEPT !.stage = "session"]
      [] OTHER -> startSucceeded(v)

\* tryStart rejects: loadClient, getUserMedia or startSession failed
startFailed(v) ==
    IF v.pc = "webrtc" THEN tryStart(v, "websocket")
    ELSE [setState(v, "error") EXCEPT !.pc = "idle", !.stage = ""]

\* onDisconnect of the session
onDisconnect(v) ==
    setState([v EXCEPT !.sessions = {}, !.conversation = 0, !.connecting = FALSE],
             "offline")

VoiceSpecInit ==
    /\ calc = VoiceStartInit
    /\ cam = CameraInit(TRUE)
    /\ aria = AriaInit(TRUE)
    /\ audio = AudioInit
    /\ orch = OrchInit
    /\ wf = << >>
    /\ intro = IntroInit
    /\ backs = << >>
    /\ ui = UIInit
    /\ ghost = GhostInit
    /\ resolveCount = << >>
    /\ camCalls = 0
    /\ walkCalls = 0

VoiceToggleClick ==
    /\ calc.state # "connecting"
    /\ calc.starts < MaxVoiceStarts
    /\ calc' = toggleClick(calc)
    /\ UNCHANGED programVars

VoiceTryStartResumes ==
    /\ calc.pc \in {"webrtc", "websocket"}
    /\ calc' = tryStartResumed(calc)
    /\ UNCHANGED programVars

\* a loaded client is returned by loadClient without a new import
VoiceStartFails ==
    /\ calc.pc \in {"webrtc", "websocket"}
    /\ ~(calc.stage = "load" /\ calc.clientLoaded)
    /\ calc.starts < MaxVoiceStarts
    /\ calc' = startFailed(calc)
    /\ UNCHANGED programVars

VoiceDisconnect ==
    /\ calc.sessions # {}
    /\ calc' = onDisconnect(calc)
    /\ UNCHANGED programVars

\* onModeChange(mode) and onError(err) of the open session
VoiceSessionEvent ==
    /\ calc.sessions # {}
    /\ \E state \in {"speaking", "listening", "error"} : calc' = setState(calc, state)
    /\ UNCHANGED programVars

\* aria:voiceMute and aria:voiceUnmute
VoiceMute ==
    /\ \E volume \in {0, 1} : calc' = [calc EXCEPT !.outputVolume = volume]
    /\ UNCHANGED programVars

VoiceNext ==
    \/ VoiceToggleClick
    \/ VoiceTryStartResumes
    \/ VoiceStartFails
    \/ VoiceDisconnect
    \/ VoiceSessionEvent
    \/ VoiceMute

SpecVoice == VoiceSpecInit /\ [][VoiceNext]_vars

\* C40: after a start that failed on both transports (or whose client
\* library failed to load) a later click on the toggle attempts a new start:
\* the connecting flag is not left set with no conversation; and at most one
\* session is open at any time.
C40_VoiceRecoversAfterFailedStart ==
    /\ (calc.pc = "idle" /\ calc.conversation = 0)
          => /\ ~calc.connecting
             /\ toggleClick(calc).pc = "webrtc"
    /\ Cardinality(calc.sessions) <= 1

====
